---------------------------- MODULE Spec2Model ----------------------------
(***************************************************************************)
(* A model of the entanglement forwarding core of the mqns simulator:      *)
(* the forwarding information base (qns/network/proactive/fib.py), the     *)
(* link layer (qns/network/protocol/link_layer.py) and the proactive       *)
(* forwarder (qns/network/protocol/proactive_routing.py), running on a     *)
(* discrete-event scheduler with per-channel quantum memories.             *)
(***************************************************************************)
EXTENDS Integers, Sequences, FiniteSets, TLC

(***************************************************************************)
(* Bounds of the model.                                                    *)
(***************************************************************************)
MaxPathId == 2
MaxReqId == 2
MaxNodes == 5

MaxEnd == 10         \* simulated time of a run: the simulator's end time
MaxCalls == 4        \* calls made by the driver of a memory on its own

(***************************************************************************)
(* Program constants.                                                      *)
(***************************************************************************)
Eps == 1             \* Time(sec=1e-6), the offset of the second release event
NoDecoh == 999       \* decoherence_time of a pair in a memory that never decoheres

VARIABLES
    cfg,        \* the scenario: topology, path, timing (fixed during a run)
    now,        \* Simulator.tc
    queue,      \* the event pool, ordered by (time, insertion)
    mem,        \* per node and qchannel: the slots of the QuantumMemory
    usage,      \* per node and qchannel: QuantumMemory._usage
    nextId,     \* source of fresh EPR names (uuid4)
    fatal,      \* an exception has escaped a handler: the run is aborted
    active,     \* LinkLayer.active_channels
    waitingCh,  \* LinkLayer.waiting_channels
    waitingQ,   \* LinkLayer.waiting_qubits
    llPhase,    \* LinkLayer.sync_current_phase
    pfPhase,    \* ProactiveRouting.sync_current_phase
    pfWaiting,  \* ProactiveRouting.waiting_qubits
    par,        \* ProactiveRouting.parallel_swappings
    e2e,        \* ProactiveRouting.e2e_count
    fib,        \* per node: the ForwardingInformationBase [table, req_path_map]
    obs,        \* observer (monitor) counters and logs
    fibLast,    \* observer: per path_id, the entry of the last insert, or NoEntry
    fibPrev,    \* observer: the FIB of node 1 before the last FIB call
    fibCall,    \* observer: the last FIB call [op, path_id, absent]
    calc        \* a function of the library called on its own: its
                \* arguments and what it returned

netvars == <<cfg, now, queue, mem, usage, nextId, fatal, active, waitingCh,
             waitingQ, llPhase, pfPhase, pfWaiting, par, e2e, obs, calc>>
fibvars == <<fibLast, fibPrev, fibCall>>
vars == <<netvars, fib, fibvars>>

Nodes == 1..MaxNodes
Chans == 1..(MaxNodes - 1)
PathIds == 1..MaxPathId
ReqIds == 1..MaxReqId

Min(a, b) == IF a <= b THEN a ELSE b
FirstIdx(S) == IF S = {} THEN 0 ELSE CHOOSE i \in S : \A j \in S : i <= j

(***************************************************************************)
(* Forwarding information base.                                            *)
(***************************************************************************)
NoEntry == [path_id |-> 0, request_id |-> 0, path_vector |-> <<>>,
            swap_sequence |-> <<>>, purification_scheme |-> 0]

FIBEntry(pid, rid, route, swap) ==
    [path_id |-> pid, request_id |-> rid, path_vector |-> route,
     swap_sequence |-> swap, purification_scheme |-> 0]

\* ForwardingInformationBase.__init__: two empty dicts
EmptyFib == [table |-> <<>>, req_path_map |-> <<>>]

Restrict(f, S) == [x \in S |-> f[x]]

\* dict assignment d[k] = v
DictPut(d, k, v) == [x \in (DOMAIN d) \cup {k} |-> IF x = k THEN v ELSE d[x]]

\* ForwardingInformationBase.erase with the index left untouched
FibEraseKeepIndex(f, path_id) ==
    IF path_id \notin DOMAIN f.table THEN f
    ELSE [f EXCEPT !.table = Restrict(f.table, (DOMAIN f.table) \ {path_id})]

\* ForwardingInformationBase.erase
FibErase(f, path_id) ==
    IF path_id \notin DOMAIN f.table
      THEN f
      ELSE LET entry == f.table[path_id]
               request_id == entry.request_id
               table2 == Restrict(f.table, (DOMAIN f.table) \ {path_id})
               paths == IF request_id \in DOMAIN f.req_path_map
                          THEN f.req_path_map[request_id] \ {path_id}
                          ELSE {}
               map2 == IF paths = {}
                         THEN Restrict(f.req_path_map,
                                       (DOMAIN f.req_path_map) \ {request_id})
                         ELSE DictPut(f.req_path_map, request_id, paths)
           IN  [table |-> table2, req_path_map |-> map2]

\* ForwardingInformationBase.insert_or_replace that keeps an existing entry
FibInsertKeepOld(f, entry) ==
    IF entry.path_id \in DOMAIN f.table THEN f
    ELSE [table |-> DictPut(f.table, entry.path_id, entry),
          req_path_map |-> DictPut(f.req_path_map, entry.request_id,
               (IF entry.request_id \in DOMAIN f.req_path_map
                  THEN f.req_path_map[entry.request_id] ELSE {})
               \cup {entry.path_id})]

\* ForwardingInformationBase.insert_or_replace
FibInsertOrReplace(f, entry) ==
    LET f1 == FibErase(f, entry.path_id)
        table2 == DictPut(f1.table, entry.path_id, entry)
        paths == IF entry.request_id \in DOMAIN f1.req_path_map
                   THEN f1.req_path_map[entry.request_id]
                   ELSE {}
    IN  [table |-> table2,
         req_path_map |-> DictPut(f1.req_path_map, entry.request_id,
                                  paths \cup {entry.path_id})]

\* ForwardingInformationBase.get / get_entry (NoEntry when absent)
FibGet(f, path_id) ==
    IF path_id \in DOMAIN f.table THEN f.table[path_id] ELSE NoEntry

\* ForwardingInformationBase.list_path_ids_by_request_id
ListPathIdsByRequestId(f, request_id) ==
    IF request_id \in DOMAIN f.req_path_map
      THEN f.req_path_map[request_id]
      ELSE {}

\* is_swap_disabled
IsSwapDisabled(entry) ==
    /\ entry.swap_sequence[1] = 0
    /\ entry.swap_sequence[Len(entry.swap_sequence)] = 0

\* find_index_and_swapping_rank
RankOf(entry, node) ==
    LET idx == CHOOSE i \in 1..Len(entry.path_vector) : entry.path_vector[i] = node
    IN  entry.swap_sequence[idx]

(***************************************************************************)
(* Entangled pairs, messages and events.                                   *)
(***************************************************************************)
\* an EPR object; name 0 stands for None.  orig is FALSE for an elementary
\* pair made by the link layer and TRUE for the product of a swap.
NoEpr == [name |-> 0, src |-> 0, dst |-> 0, dt |-> 0, path_id |-> 0, orig |-> FALSE]

\* a classical message; cmd "none" stands for no message
NoMsg == [cmd |-> "none", path_id |-> 0, swapping_node |-> 0, partner |-> 0,
          epr |-> 0, new_epr |-> NoEpr, destination |-> 0, fwd |-> FALSE]

\* an event of the simulator with its payload
Ev(t, kind, node) ==
    [t |-> t, kind |-> kind, node |-> node, ch |-> 0, addr |-> 0,
     epr |-> NoEpr, frm |-> 0, msg |-> NoMsg, e2e |-> FALSE, add |-> FALSE,
     path_id |-> 0, route |-> <<>>, swap |-> <<>>, m_v |-> <<>>]

\* a slot of a QuantumMemory: the MemoryQubit (pid = path id, 0 for None;
\* st = its QubitState) and the pair it holds
EmptySlot == [pid |-> 0, epr |-> NoEpr, st |-> "RELEASE"]

(***************************************************************************)
(* Scenarios: a linear path of n nodes 1..n; qchannel and cchannel c join  *)
(* nodes c and c+1 and have the same delay d[c].  tcoh = 0 stands for a    *)
(* memory without decoherence.                                             *)
(***************************************************************************)
Scenario(name, names, swap, cap, d, tcoh, loss, psfail, mode) ==
    [name |-> name, names |-> names, n |-> Len(swap), swap |-> swap,
     cap |-> cap, d |-> d, tcoh |-> tcoh, end |-> MaxEnd, loss |-> loss,
     psfail |-> psfail, mode |-> mode,
     dc |-> d, t_slot |-> 0, t_ext |-> 0, t_int |-> 0, manage |-> <<>>, m_v |-> <<>>]

\* the classical channels have their own delays dc
WithCDelay(s, dc) == [s EXCEPT !.dc = dc]

\* the durations of the timing modes: t_slot (LSYNC), t_ext and t_int (SYNC)
WithTiming(s, t_slot, t_ext, t_int) ==
    [s EXCEPT !.t_slot = t_slot, !.t_ext = t_ext, !.t_int = t_int]

\* LinkLayerManageActiveChannels events given to the simulator besides
\* those of the path installation: <<time, node, next_hop, add>>
WithManage(s, evs) == [s EXCEPT !.manage = evs]

\* the same scenario installed with the allocation vector m_v
\* (m_v[i]: qubits of the channel between route[i] and route[i+1])
WithMv(s, m_v) == [s EXCEPT !.m_v = m_v]

Scenarios ==
    { Scenario("swap3", <<"S", "R", "D">>, <<1, 0, 1>>, <<1, 2>>, <<1, 2>>,
               7, TRUE, TRUE, "ASYNC"),
      Scenario("par4", <<"S", "R1", "R2", "D">>, <<1, 0, 0, 1>>,
               <<1, 1, 1>>, <<1, 1, 1>>, 0, FALSE, TRUE, "ASYNC"),
      WithManage(
        Scenario("ideal3", <<"S", "R", "D">>, <<1, 0, 1>>, <<2, 2>>, <<1, 1>>,
                 0, FALSE, FALSE, "ASYNC"),
        << <<3, 1, 2, TRUE>> >>),
      Scenario("ideal4", <<"S", "R1", "R2", "D">>, <<2, 0, 1, 2>>,
               <<1, 1, 1>>, <<1, 1, 1>>, 0, FALSE, FALSE, "ASYNC"),
      Scenario("ideal4p", <<"S", "R1", "R2", "D">>, <<1, 0, 0, 1>>,
               <<1, 1, 1>>, <<1, 1, 1>>, 0, FALSE, FALSE, "ASYNC"),
      Scenario("disabled3", <<"S", "R", "D">>, <<0, 0, 0>>, <<1, 1>>,
               <<1, 1>>, 0, FALSE, FALSE, "ASYNC"),
      Scenario("par5", <<"S", "R1", "R2", "R3", "D">>, <<0, 1, 1, 1, 0>>,
               <<1, 1, 1, 1>>, <<1, 1, 1, 1>>, 0, FALSE, FALSE, "ASYNC"),
      Scenario("short3", <<"S", "R", "D">>, <<1, 0, 1>>, <<1, 1>>, <<2, 2>>,
               1, FALSE, FALSE, "ASYNC"),
      WithTiming(
        Scenario("lsync3", <<"S", "R", "D">>, <<1, 0, 1>>, <<2, 1>>, <<1, 1>>,
                 0, TRUE, FALSE, "LSYNC"),
        4, 0, 0),
      WithTiming(
        Scenario("lsyncd", <<"S", "R", "D">>, <<1, 0, 1>>, <<2, 1>>, <<1, 1>>,
                 3, FALSE, FALSE, "LSYNC"),
        4, 0, 0),
      WithTiming(
        Scenario("sync3", <<"S", "R", "D">>, <<1, 0, 1>>, <<2, 2>>, <<1, 1>>,
                 0, TRUE, FALSE, "SYNC"),
        0, 3, 2),
      WithTiming(
        Scenario("syncd", <<"S", "R", "D">>, <<1, 0, 1>>, <<3, 1>>, <<1, 1>>,
                 3, FALSE, FALSE, "SYNC"),
        0, 1, 3),
      WithCDelay(
        WithManage(
          Scenario("rem3", <<"S", "R", "D">>, <<1, 0, 1>>, <<2, 2>>, <<1, 1>>,
                   0, TRUE, FALSE, "ASYNC"),
          << <<3, 1, 2, FALSE>> >>),
        <<1, 2>>),
      WithManage(
        Scenario("shortrem3", <<"S", "R", "D">>, <<1, 0, 1>>, <<1, 1>>, <<2, 2>>,
                 1, TRUE, FALSE, "ASYNC"),
        << <<1, 1, 2, FALSE>> >>),
      Scenario("named3", <<"A", "R", "S">>, <<1, 0, 1>>, <<1, 1>>, <<1, 1>>,
               0, FALSE, FALSE, "ASYNC"),
      Scenario("wave4", <<"S", "R", "D">>, <<1, 0, 1>>, <<1, 4>>, <<1, 1>>,
               0, FALSE, FALSE, "ASYNC"),
      WithTiming(
        Scenario("synce", <<"S", "R", "D">>, <<1, 0, 1>>, <<1, 1>>, <<1, 1>>,
                 1, FALSE, FALSE, "SYNC"),
        0, 3, 2),
      WithTiming(
        Scenario("syncu", <<"S", "R1", "R2", "D">>, <<2, 0, 1, 2>>,
                 <<1, 1, 1>>, <<1, 1, 1>>, 0, FALSE, FALSE, "SYNC"),
        0, 3, 1),
      WithMv(
        Scenario("mvfit3", <<"S", "R", "D">>, <<1, 0, 1>>, <<2, 1>>, <<1, 1>>,
                 0, TRUE, FALSE, "ASYNC"),
        <<2, 1>>),
      WithMv(
        Scenario("mvless3", <<"S", "R", "D">>, <<1, 0, 1>>, <<1, 2>>, <<1, 1>>,
                 0, TRUE, FALSE, "ASYNC"),
        <<1, 1>>),
      WithMv(
        Scenario("mvmore3", <<"S", "R", "D">>, <<1, 0, 1>>, <<1, 1>>, <<1, 1>>,
                 0, TRUE, FALSE, "ASYNC"),
        <<1, 2>>),
      Scenario("coh4", <<"S", "R1", "R2", "D">>, <<2, 0, 1, 2>>,
               <<1, 1, 1>>, <<1, 1, 1>>, 4, FALSE, FALSE, "ASYNC"),
      WithMv(
        Scenario("mvnone3", <<"S", "R", "D">>, <<1, 0, 1>>, <<1, 1>>, <<1, 1>>,
                 0, FALSE, FALSE, "ASYNC"),
        <<0, 1>>),
      WithTiming(
        Scenario("synclate4", <<"S", "R1", "R2", "D">>, <<2, 1, 0, 2>>,
                 <<1, 1, 1>>, <<1, 1, 1>>, 0, FALSE, FALSE, "SYNC"),
        0, 3, 1),
      Scenario("tri5", <<"S", "R1", "R2", "R3", "D">>, <<1, 0, 0, 0, 1>>,
               <<1, 1, 1, 1>>, <<1, 1, 1, 1>>, 0, FALSE, FALSE, "ASYNC"),
      Scenario("parx4", <<"S", "R1", "R2", "D">>, <<1, 0, 0, 1>>,
               <<1, 1, 1>>, <<1, 1, 1>>, 3, FALSE, FALSE, "ASYNC") }

Route(c) == [i \in 1..c.n |-> i]
NodeChans(c, n) == {k \in {n - 1, n} : k >= 1 /\ k <= c.n - 1}
OtherEnd(n, c) == IF n = c THEN c + 1 ELSE c
ChanTo(n, m) == Min(n, m)
Adjacent(n, m) == n - m = 1 \/ m - n = 1

(***************************************************************************)
(* The world a handler works on: a record of all the simulation state.     *)
(* Handlers are functions from worlds to worlds.                           *)
(***************************************************************************)
World ==
    [now |-> now, queue |-> queue, mem |-> mem, usage |-> usage,
     nextId |-> nextId, fatal |-> fatal, active |-> active,
     waitingCh |-> waitingCh, waitingQ |-> waitingQ, llPhase |-> llPhase,
     pfPhase |-> pfPhase, pfWaiting |-> pfWaiting, par |-> par, e2e |-> e2e,
     fib |-> fib, obs |-> obs]

Commit(w) ==
    /\ now' = w.now /\ queue' = w.queue /\ mem' = w.mem /\ usage' = w.usage
    /\ nextId' = w.nextId /\ fatal' = w.fatal /\ active' = w.active
    /\ waitingCh' = w.waitingCh /\ waitingQ' = w.waitingQ
    /\ llPhase' = w.llPhase /\ pfPhase' = w.pfPhase
    /\ pfWaiting' = w.pfWaiting /\ par' = w.par /\ e2e' = w.e2e
    /\ fib' = w.fib /\ obs' = w.obs
    /\ UNCHANGED <<cfg, fibvars, calc>>

\* an exception escapes the handler: the simulation run stops
Raise(w) == [w EXCEPT !.fatal = TRUE]

(***************************************************************************)
(* The event pool.                                                         *)
(***************************************************************************)
\* insertion behind every event that is not later (ties run in FIFO order)
InsertEv(q, e) ==
    LET k == Cardinality({i \in 1..Len(q) : q[i].t <= e.t})
    IN  SubSeq(q, 1, k) \o <<e>> \o SubSeq(q, k + 1, Len(q))

\* Simulator.add_event: an event before the current time or after the end
\* of the run is not kept
AddEvent(w, e) ==
    IF e.t < w.now \/ e.t > cfg.end THEN w
    ELSE [w EXCEPT !.queue = InsertEv(@, e)]

(***************************************************************************)
(* Quantum memory.                                                         *)
(***************************************************************************)
Capacity(w, n, c) == Len(w.mem[n][c])

\* QuantumMemory.free: the number of slots that hold no pair
Free(w, n, c) == Cardinality({i \in DOMAIN w.mem[n][c] : w.mem[n][c][i].epr.name = 0})

\* QuantumMemory._search by name: the address of the slot, 0 when absent
MemSearch(w, n, c, name) ==
    FirstIdx({i \in DOMAIN w.mem[n][c] :
                 name # 0 /\ w.mem[n][c][i].epr.name = name})

\* QuantumMemory.allocate: the first slot without a path id gets path_id
MemAllocate(w, n, c, path_id) ==
    LET a == FirstIdx({i \in DOMAIN w.mem[n][c] : w.mem[n][c][i].pid = 0})
    IN  IF a = 0 THEN w ELSE [w EXCEPT !.mem[n][c][a].pid = path_id]

\* QuantumMemory.deallocate: the path id of an allocated, empty slot is
\* dropped; an invalid address changes nothing
MemDeallocate(w, n, c, a) ==
    IF a \in DOMAIN w.mem[n][c] /\ w.mem[n][c][a].pid # 0
                              /\ w.mem[n][c][a].epr.name = 0
      THEN [w EXCEPT !.mem[n][c][a].pid = 0]
      ELSE w

\* QuantumMemory.write, the choice of the slot: 0 when the memory is full,
\* the addressed slot is taken or no slot of the path is empty
MemWriteAddr(w, n, c, pid, address) ==
    LET m == w.mem[n][c] IN
    IF w.usage[n][c] >= Len(m) THEN 0
    ELSE IF address # 0
           THEN (IF address \in DOMAIN m /\ m[address].epr.name = 0
                   THEN address ELSE 0)
           ELSE FirstIdx({i \in DOMAIN m :
                            m[i].epr.name = 0 /\ (pid = 0 \/ m[i].pid = pid)})

\* QuantumMemory.write with path_id and key that stores the pair in the
\* slot named by the key whether or not the slot is empty
MemWriteKeyOver(w, n, c, pid, key) ==
    LET m == w.mem[n][c] IN
    IF key \in DOMAIN m /\ pid # 0 /\ m[key].pid = pid THEN key ELSE 0

\* QuantumMemory.write with path_id and key, the choice of the slot: the
\* slot reserved for the path that carries the key (the key of slot i is
\* i), when it is empty; 0 otherwise
MemWriteKey(w, n, c, pid, key) ==
    LET m == w.mem[n][c] IN
    IF w.usage[n][c] >= Len(m) THEN 0
    ELSE IF key \in DOMAIN m /\ pid # 0 /\ m[key].pid = pid
                             /\ m[key].epr.name = 0
      THEN key ELSE 0

\* the decoherence timer of the pair stored in a slot
DecohereEv(n, c, a, qm) ==
    [Ev(qm.dt, "decohere", n) EXCEPT !.ch = c, !.addr = a, !.epr = qm]

\* QuantumMemory.write without the usage counter
MemWriteNoCount(w, n, c, epr, a, delay) ==
    LET qm == [epr EXCEPT !.dt = IF cfg.tcoh = 0 THEN NoDecoh
                                 ELSE w.now + cfg.tcoh - delay]
        w1 == [w EXCEPT !.mem[n][c][a].epr = qm]
    IN  IF cfg.tcoh = 0 THEN w1 ELSE AddEvent(w1, DecohereEv(n, c, a, qm))

\* QuantumMemory.write into slot a: store the pair, count it, set its
\* decoherence time to now + coherence time - delay and arm the timer
MemWrite(w, n, c, epr, a, delay) ==
    LET qm == [epr EXCEPT !.dt = IF cfg.tcoh = 0 THEN NoDecoh
                                 ELSE w.now + cfg.tcoh - delay]
        w1 == [w EXCEPT !.mem[n][c][a].epr = qm, !.usage[n][c] = @ + 1]
    IN  IF cfg.tcoh = 0 THEN w1 ELSE AddEvent(w1, DecohereEv(n, c, a, qm))

\* QuantumMemory.read of slot a: the pair leaves the slot
MemRead(w, n, c, a) ==
    IF w.mem[n][c][a].epr.name = 0 THEN w
    ELSE [w EXCEPT !.mem[n][c][a].epr = NoEpr, !.usage[n][c] = @ - 1]

\* QuantumMemory.update: the pair of slot a is replaced, the timer re-armed
MemUpdate(w, n, c, a, new) ==
    LET w1 == [w EXCEPT !.mem[n][c][a].epr = new]
    IN  IF new.dt >= NoDecoh THEN w1 ELSE AddEvent(w1, DecohereEv(n, c, a, new))

\* QuantumMemory.clear: every slot is emptied, the path ids stay
MemClear(w, n, c) ==
    [w EXCEPT !.mem[n][c] = [i \in DOMAIN @ |-> [@[i] EXCEPT !.epr = NoEpr]],
              !.usage[n][c] = 0]

\* QuantumMemory.search_eligible_qubits
SearchEligible(w, n, c, pid) ==
    {i \in DOMAIN w.mem[n][c] :
        /\ w.mem[n][c][i].st = "ELIGIBLE"
        /\ w.mem[n][c][i].pid = pid
        /\ w.mem[n][c][i].epr.name # 0}

SetState(w, n, c, a, s) ==
    [w EXCEPT !.mem[n][c][a].st = s,
              !.obs.fsm = Append(@, <<n, c, a, s>>)]

(***************************************************************************)
(* Link layer.                                                             *)
(***************************************************************************)
\* the observer's record of a call made by the handler that is running:
\* a classical send, a qubit send or a QubitEntangledEvent
Call(call, n, to, cmd, name, c, a, t) ==
    [call |-> call, node |-> n, to |-> to, cmd |-> cmd, name |-> name,
     ch |-> c, addr |-> a, t |-> t]

Out(w, rec) == [w EXCEPT !.obs.out = Append(@, rec)]

\* ClassicChannel.send of a heralding message from node n to its neighbour
SendHerald(w, n, to, cmd, epr) ==
    LET t == w.now + cfg.dc[ChanTo(n, to)] IN
    AddEvent(Out(w, Call("csend", n, to, cmd, epr.name, ChanTo(n, to), 0, t)),
             [Ev(t, "ll_signal", to) EXCEPT
                   !.frm = n,
                   !.msg = [NoMsg EXCEPT !.cmd = cmd, !.path_id = epr.path_id,
                                         !.epr = epr.name]])

\* LinkLayer.notify_entangled_qubit
NotifyEntangledQubit(w, n, neighbor, c, a, delay) ==
    AddEvent(Out(SetState(w, n, c, a, "ENTANGLED"),
                 Call("notify", n, neighbor, "entangled",
                      w.mem[n][c][a].epr.name, c, a, w.now + delay)),
             [Ev(w.now + delay, "entangled", n) EXCEPT
                !.frm = neighbor, !.ch = c, !.addr = a])

\* LinkLayer.generate_entanglement (with generate_epr and qchannel.send)
GenerateEntanglement(w, n, c, address) ==
    IF cfg.mode = "SYNC" /\ w.llPhase[n] # "EXTERNAL" THEN w
    ELSE IF c \notin w.active[n] THEN w
    ELSE
      LET next_hop == OtherEnd(n, c)
          a == MemWriteAddr(w, n, c, 0, address)
      IN  IF a = 0 THEN w
          ELSE
            LET epr0 == [name |-> w.nextId, src |-> n, dst |-> next_hop,
                         dt |-> 0, path_id |-> w.mem[n][c][a].pid,
                         orig |-> FALSE]
                w1 == MemWrite([w EXCEPT !.nextId = @ + 1], n, c, epr0, a, 0)
                epr == w1.mem[n][c][a].epr
                w2 == AddEvent(w1, [Ev(w.now + cfg.d[c], "recv_qubit", next_hop)
                                      EXCEPT !.frm = n, !.ch = c, !.epr = epr])
            IN  [Out(w2, Call("qsend", n, next_hop, "epr", epr.name, c, a,
                              w.now + cfg.d[c]))
                   EXCEPT !.obs.attempts[n] = @ + 1,
                          !.obs.inflight[n][c] = @ + 1]

\* LinkLayer.handle_active_channel: one attempt per slot, spaced by
\* 1/attempt_rate
RECURSIVE ScheduleAttempts(_, _, _, _)
ScheduleAttempts(w, n, c, i) ==
    IF i >= Capacity(w, n, c) THEN w
    ELSE ScheduleAttempts(
           AddEvent(w, [Ev(w.now + i * Eps, "generate", n) EXCEPT !.ch = c]),
           n, c, i + 1)

HandleActiveChannel(w, n, c) ==
    ScheduleAttempts([w EXCEPT !.obs.waves[n] = @ + 1], n, c, 0)

\* LinkLayer.handle_distribution that sends no reply when the memory is full
HandleDistributionSilentFull(w, n, c, epr, lost) ==
    IF cfg.mode = "SYNC" /\ w.llPhase[n] # "EXTERNAL" THEN w
    ELSE
      LET from_node == OtherEnd(n, c) IN
      IF lost THEN SendHerald(w, n, from_node, "epr_failed", epr)
      ELSE
        LET a == MemWriteAddr(w, n, c, epr.path_id, 0) IN
        IF a = 0 THEN w
        ELSE
          LET w1 == MemWrite(w, n, c, epr, a, cfg.d[c])
              w2 == SendHerald(w1, n, from_node, "epr_succeeded", epr)
          IN  NotifyEntangledQubit(w2, n, from_node, c, a, cfg.dc[c])

\* LinkLayer.handle_distribution without the check of the phase
HandleDistributionAnyPhase(w, n, c, epr, lost) ==
    LET from_node == OtherEnd(n, c) IN
    IF lost THEN SendHerald(w, n, from_node, "epr_failed", epr)
    ELSE
      LET a == MemWriteAddr(w, n, c, epr.path_id, 0) IN
      IF a = 0 THEN SendHerald(w, n, from_node, "epr_failed", epr)
      ELSE
        LET w1 == MemWrite(w, n, c, epr, a, cfg.d[c])
            w2 == SendHerald(w1, n, from_node, "epr_succeeded", epr)
        IN  NotifyEntangledQubit(w2, n, from_node, c, a, cfg.dc[c])

\* handle_distribution, were the pair announced without the notify delay
HandleDistributionPromptNotify(w, n, c, epr, lost) ==
    IF cfg.mode = "SYNC" /\ w.llPhase[n] # "EXTERNAL" THEN w
    ELSE
      LET from_node == OtherEnd(n, c) IN
      IF lost THEN SendHerald(w, n, from_node, "epr_failed", epr)
      ELSE
        LET a == MemWriteAddr(w, n, c, epr.path_id, 0) IN
        IF a = 0 THEN SendHerald(w, n, from_node, "epr_failed", epr)
        ELSE
          LET w1 == MemWrite(w, n, c, epr, a, cfg.d[c])
              w2 == SendHerald(w1, n, from_node, "epr_succeeded", epr)
          IN  NotifyEntangledQubit(w2, n, from_node, c, a, 0)

\* LinkLayer.handle_distribution: a half pair arrives at node n over c
HandleDistribution(w, n, c, epr, lost) ==
    IF cfg.mode = "SYNC" /\ w.llPhase[n] # "EXTERNAL" THEN w
    ELSE
      LET from_node == OtherEnd(n, c) IN
      IF lost THEN SendHerald(w, n, from_node, "epr_failed", epr)
      ELSE
        LET a == MemWriteAddr(w, n, c, epr.path_id, 0) IN
        IF a = 0 THEN SendHerald(w, n, from_node, "epr_failed", epr)
        ELSE
          LET w1 == MemWrite(w, n, c, epr, a, cfg.d[c])
              w2 == SendHerald(w1, n, from_node, "epr_succeeded", epr)
          IN  NotifyEntangledQubit(w2, n, from_node, c, a, cfg.dc[c])

\* LinkLayer.handle_signaling that frees the slot of a failed attempt
\* without a new attempt
LLHandleSignalingNoRetry(w, n, from_node, msg) ==
    IF cfg.mode = "SYNC" /\ w.llPhase[n] # "EXTERNAL" THEN w
    ELSE
      LET c == ChanTo(n, from_node)
          a == MemSearch(w, n, c, msg.epr)
          w0 == [w EXCEPT !.obs.inflight[n][c] = @ - 1]
      IN  IF c \notin w.active[n]
            THEN (IF a = 0 THEN Raise(w0) ELSE MemRead(w0, n, c, a))
          ELSE IF a = 0 THEN Raise(w0)
          ELSE IF msg.cmd = "epr_succeeded"
            THEN NotifyEntangledQubit(w0, n, from_node, c, a, 0)
          ELSE MemRead(w0, n, c, a)

\* LinkLayer.handle_signaling: a heralding message arrives at the initiator
LLHandleSignaling(w, n, from_node, msg) ==
    IF cfg.mode = "SYNC" /\ w.llPhase[n] # "EXTERNAL" THEN w
    ELSE
      LET c == ChanTo(n, from_node)
          a == MemSearch(w, n, c, msg.epr)
          w0 == [w EXCEPT !.obs.inflight[n][c] = @ - 1]
      IN  IF c \notin w.active[n]
            THEN (IF a = 0 THEN Raise(w0) ELSE MemRead(w0, n, c, a))
          ELSE IF a = 0 THEN Raise(w0)
          ELSE IF msg.cmd = "epr_succeeded"
            THEN NotifyEntangledQubit(w0, n, from_node, c, a, 0)
          ELSE GenerateEntanglement(MemRead(w0, n, c, a), n, c, a)

\* LinkLayer.handle_event, LinkLayerManageActiveChannels, with a new wave
\* of attempts for a channel that is already active
ManageActiveChannelsRewave(w, n, next_hop, add) ==
    LET c == ChanTo(n, next_hop) IN
    IF ~Adjacent(n, next_hop) THEN Raise(w)
    ELSE IF add
      THEN LET w1 == [w EXCEPT !.active[n] = @ \cup {c}] IN
           IF cfg.mode = "ASYNC" THEN HandleActiveChannel(w1, n, c)
           ELSE IF cfg.mode = "LSYNC" /\ c \notin w.active[n]
             THEN [w1 EXCEPT !.waitingCh[n] = @ \cup {c}]
           ELSE w1
      ELSE [w EXCEPT !.active[n] = @ \ {c}]

\* LinkLayer.handle_event, LinkLayerManageActiveChannels, with the first
\* wave started at the activation in every timing mode
ManageActiveChannelsEager(w, n, next_hop, add) ==
    LET c == ChanTo(n, next_hop) IN
    IF ~Adjacent(n, next_hop) THEN Raise(w)
    ELSE IF add
      THEN IF c \notin w.active[n]
             THEN HandleActiveChannel([w EXCEPT !.active[n] = @ \cup {c}], n, c)
             ELSE w
      ELSE [w EXCEPT !.active[n] = @ \ {c}]

\* LinkLayer.handle_event, LinkLayerManageActiveChannels
ManageActiveChannels(w, n, next_hop, add) ==
    LET c == ChanTo(n, next_hop) IN
    IF ~Adjacent(n, next_hop) THEN Raise(w)
    ELSE IF add
      THEN IF c \notin w.active[n]
             THEN LET w1 == [w EXCEPT !.active[n] = @ \cup {c}] IN
                  IF cfg.mode = "ASYNC" THEN HandleActiveChannel(w1, n, c)
                  ELSE IF cfg.mode = "LSYNC"
                    THEN [w1 EXCEPT !.waitingCh[n] = @ \cup {c}]
                  ELSE w1
             ELSE w
      ELSE [w EXCEPT !.active[n] = @ \ {c}]

\* LinkLayer.handle_event, QubitDecoheredEvent, without the new attempt
LLQubitDecoheredNoRetry(w, n, c, a) == w

\* LinkLayer.handle_event, QubitDecoheredEvent
LLQubitDecohered(w, n, c, a) ==
    IF c \in w.active[n] THEN GenerateEntanglement(w, n, c, a) ELSE w

\* LinkLayer.handle_event, QubitReleasedEvent
LLQubitReleased(w, n, c, a) ==
    IF c \in w.active[n]
      THEN IF cfg.mode = "ASYNC" THEN GenerateEntanglement(w, n, c, a)
           ELSE IF cfg.mode = "LSYNC"
             THEN [w EXCEPT !.waitingQ[n] = @ \cup {<<c, a>>}]
           ELSE w
      ELSE w

\* QuantumMemory.clear on every memory of the node
RECURSIVE ClearAll(_, _, _)
ClearAll(w, n, S) ==
    IF S = {} THEN w
    ELSE LET c == FirstIdx(S) IN ClearAll(MemClear(w, n, c), n, S \ {c})

\* handle_active_channel for every channel of active_channels
RECURSIVE WaveAll(_, _, _)
WaveAll(w, n, S) ==
    IF S = {} THEN w
    ELSE LET c == FirstIdx(S) IN WaveAll(HandleActiveChannel(w, n, c), n, S \ {c})

\* LinkLayer.handle_sync_signal
LLHandleSyncSignal(w, n, signal_type) ==
    IF cfg.mode = "LSYNC" /\ signal_type = "EXTERNAL_START"
      THEN WaveAll(ClearAll(w, n, NodeChans(cfg, n)), n, w.active[n])
    ELSE IF cfg.mode = "SYNC"
      THEN LET w1 == [w EXCEPT !.llPhase[n] = signal_type] IN
           IF signal_type = "EXTERNAL"
             THEN WaveAll(ClearAll(w1, n, NodeChans(cfg, n)), n, w1.active[n])
             ELSE w1
    ELSE w

\* a decoherence timer that empties its slot whatever pair the slot holds
MemDecohereAnyPair(w, n, c, a, name) ==
    IF w.mem[n][c][a].epr.name = 0 THEN w
    ELSE LET w1 == SetState(MemRead(w, n, c, a), n, c, a, "RELEASE")
             w2 == [w1 EXCEPT !.obs.decoh[n] = @ + 1]
         IN  AddEvent(w2, [Ev(w.now, "decohered", n) EXCEPT !.ch = c, !.addr = a])

\* the timer armed by QuantumMemory.write / update: when the slot still
\* holds the same pair it is removed, the qubit goes to RELEASE and a
\* QubitDecoheredEvent is emitted
MemDecohere(w, n, c, a, name) ==
    IF w.mem[n][c][a].epr.name # name THEN w
    ELSE LET w1 == SetState(MemRead(w, n, c, a), n, c, a, "RELEASE")
             w2 == [w1 EXCEPT !.obs.decoh[n] = @ + 1]
         IN  AddEvent(w2, [Ev(w.now, "decohered", n) EXCEPT !.ch = c, !.addr = a])

(***************************************************************************)
(* Proactive forwarder.                                                    *)
(***************************************************************************)
\* route.index(node), 1-based; 0 when the node is not on the route
RouteIndex(route, node) == FirstIdx({i \in 1..Len(route) : route[i] = node})

\* ProactiveRouting.eval_swapping_conditions without the comparison of ranks
EvalSwappingConditionsNoRank(entry, n, partner) ==
    RouteIndex(entry.path_vector, partner) # 0

\* ProactiveRouting.eval_swapping_conditions
EvalSwappingConditions(entry, n, partner) ==
    LET partner_rank == entry.swap_sequence[RouteIndex(entry.path_vector, partner)]
        own_rank == entry.swap_sequence[RouteIndex(entry.path_vector, n)]
    IN  partner_rank >= own_rank

\* ProactiveRouting.check_eligible_qubit: the other memory of the node that
\* has an eligible qubit of the path, 0 when there is none
CheckEligibleQubit(w, n, c, path_id) ==
    FirstIdx({k \in NodeChans(cfg, n) :
                 k # c /\ SearchEligible(w, n, k, path_id) # {}})

\* ProactiveRouting.get_memory_qubit: <<memory, address>> of the slot that
\* holds the named pair, <<0, 0>> when no memory holds it
GetMemoryQubit(w, n, name) ==
    LET k == FirstIdx({j \in NodeChans(cfg, n) : MemSearch(w, n, j, name) # 0})
    IN  IF k = 0 THEN <<0, 0>> ELSE <<k, MemSearch(w, n, k, name)>>

\* send_swap_update, were the delay flag of a continuation ignored
SendSwapUpdatePrompt(w, n, dest, msg, route, delay) ==
    LET own_idx == RouteIndex(route, n)
        dest_idx == RouteIndex(route, dest)
        nh_idx == IF dest_idx > own_idx THEN own_idx + 1 ELSE own_idx - 1
    IN  IF dest_idx = 0 \/ nh_idx < 1 \/ nh_idx > Len(route) THEN Raise(w)
        ELSE LET nh == route[nh_idx]
                 c == ChanTo(n, nh)
                 t == w.now + cfg.dc[c]
                 w0 == [w EXCEPT !.obs.su = Append(@, [node |-> n, to |-> nh,
                                                        msg |-> msg])]
                 w1 == IF t <= cfg.end THEN w0
                       ELSE [w0 EXCEPT !.obs.cut = @ \cup {<<msg.destination, msg.epr>>}]
             IN  AddEvent(w1, [Ev(t, "pf_signal", nh) EXCEPT !.frm = n, !.msg = msg])

\* ProactiveRouting.send_swap_update
SendSwapUpdate(w, n, dest, msg, route, delay) ==
    LET own_idx == RouteIndex(route, n)
        dest_idx == RouteIndex(route, dest)
        nh_idx == IF dest_idx > own_idx THEN own_idx + 1 ELSE own_idx - 1
    IN  IF dest_idx = 0 \/ nh_idx < 1 \/ nh_idx > Len(route) THEN Raise(w)
        ELSE LET nh == route[nh_idx]
                 c == ChanTo(n, nh)
                 t == w.now + cfg.dc[c] + (IF delay THEN cfg.dc[c] ELSE 0)
                 w0 == [w EXCEPT !.obs.su = Append(@, [node |-> n, to |-> nh,
                                                        msg |-> msg])]
                 w1 == IF t <= cfg.end THEN w0
                       ELSE [w0 EXCEPT !.obs.cut = @ \cup {<<msg.destination, msg.epr>>}]
             IN  AddEvent(w1, [Ev(t, "pf_signal", nh) EXCEPT !.frm = n, !.msg = msg])

\* the release of a slot by the forwarder without reading the pair out
ReleaseQubitNoRead(w, n, c, a, e2e_flag) ==
    AddEvent(SetState(w, n, c, a, "RELEASE"),
             [Ev(w.now, "released", n) EXCEPT !.ch = c, !.addr = a, !.e2e = e2e_flag])

\* the release of a slot by the forwarder: qmem.read, qubit.fsm.to_release
\* and a QubitReleasedEvent at the current time
ReleaseQubit(w, n, c, a, e2e_flag) ==
    AddEvent(SetState(MemRead(w, n, c, a), n, c, a, "RELEASE"),
             [Ev(w.now, "released", n) EXCEPT !.ch = c, !.addr = a, !.e2e = e2e_flag])

\* WernerStateEntanglement.swapping: the new pair, NoEpr on failure
Swapping(w, a_epr, b_epr, ok) ==
    IF ~ok THEN NoEpr
    ELSE [name |-> w.nextId, src |-> 0, dst |-> 0, dt |-> Min(a_epr.dt, b_epr.dt),
          path_id |-> a_epr.path_id, orig |-> TRUE]

\* the swap of an intermediate node, were a failed swap not signalled to
\* the partners
DoSwapQuietFailure(w, n, c, a, oc, entry, ok) ==
    LET route == entry.path_vector
        swap_sequence == entry.swap_sequence
        oa == FirstIdx(SearchEligible(w, n, oc, entry.path_id))
        this_epr == w.mem[n][c][a].epr
        other_epr == w.mem[n][oc][oa].epr
    IN
    IF this_epr.name = 0 THEN Raise(w)
    ELSE IF this_epr.dst # n /\ this_epr.src # n THEN Raise(w)
    ELSE
      LET thisPrev == this_epr.dst = n
          prev_epr == IF thisPrev THEN this_epr ELSE other_epr
          next_epr == IF thisPrev THEN other_epr ELSE this_epr
          prev_partner == prev_epr.src
          next_partner == next_epr.dst
          prev_c == IF thisPrev THEN c ELSE oc
          prev_a == IF thisPrev THEN a ELSE oa
          next_c == IF thisPrev THEN oc ELSE c
          next_a == IF thisPrev THEN oa ELSE a
          sw == Swapping(w, this_epr, other_epr, ok)
          new_epr == IF sw.name = 0 THEN NoEpr
                     ELSE [sw EXCEPT !.src = prev_partner, !.dst = next_partner]
          own_rank == swap_sequence[RouteIndex(route, n)]
          pi == RouteIndex(route, prev_partner)
          ni == RouteIndex(route, next_partner)
      IN
      IF new_epr.name # 0 /\ (pi = 0 \/ ni = 0) THEN Raise(w)
      ELSE
        LET par1 == IF new_epr.name # 0 /\ own_rank = swap_sequence[pi]
                      THEN DictPut(w.par[n], prev_epr.name,
                             [shared |-> prev_epr, other |-> next_epr, my_new |-> new_epr])
                      ELSE w.par[n]
            par2 == IF new_epr.name # 0 /\ own_rank = swap_sequence[ni]
                      THEN DictPut(par1, next_epr.name,
                             [shared |-> next_epr, other |-> prev_epr, my_new |-> new_epr])
                      ELSE par1
            w1 == [w EXCEPT !.par[n] = par2,
                            !.nextId = IF new_epr.name # 0 THEN @ + 1 ELSE @,
                            !.obs.swaps[n] = @ + 1,
                            !.obs.su_sent = @ + 2,
                            !.obs.nullsu = IF new_epr.name # 0 THEN @
                                 ELSE @ \cup {<<prev_partner, prev_epr.name>>,
                                              <<next_partner, next_epr.name>>}]
            prev_msg == [cmd |-> "SWAP_UPDATE", path_id |-> entry.path_id,
                         swapping_node |-> n, partner |-> next_partner,
                         epr |-> prev_epr.name, new_epr |-> new_epr,
                         destination |-> prev_partner, fwd |-> FALSE]
            next_msg == [cmd |-> "SWAP_UPDATE", path_id |-> entry.path_id,
                         swapping_node |-> n, partner |-> prev_partner,
                         epr |-> next_epr.name, new_epr |-> new_epr,
                         destination |-> next_partner, fwd |-> FALSE]
            w2 == IF new_epr.name = 0 THEN w1
                  ELSE SendSwapUpdate(w1, n, prev_partner, prev_msg, route, FALSE)
            w3 == IF new_epr.name = 0 THEN w2
                  ELSE SendSwapUpdate(w2, n, next_partner, next_msg, route, FALSE)
            w4 == SetState(MemRead(w3, n, c, a), n, c, a, "RELEASE")
            w5 == SetState(MemRead(w4, n, oc, oa), n, oc, oa, "RELEASE")
            w6 == AddEvent(w5, [Ev(w.now, "released", n) EXCEPT
                                  !.ch = prev_c, !.addr = prev_a])
        IN  AddEvent(w6, [Ev(w.now + Eps, "released", n) EXCEPT
                            !.ch = next_c, !.addr = next_a])

\* the swap of eligible, were the ends of the new pair exchanged
DoSwapCrossedEnds(w, n, c, a, oc, entry, ok) ==
    LET route == entry.path_vector
        swap_sequence == entry.swap_sequence
        oa == FirstIdx(SearchEligible(w, n, oc, entry.path_id))
        this_epr == w.mem[n][c][a].epr
        other_epr == w.mem[n][oc][oa].epr
    IN
    IF this_epr.name = 0 THEN Raise(w)
    ELSE IF this_epr.dst # n /\ this_epr.src # n THEN Raise(w)
    ELSE
      LET thisPrev == this_epr.dst = n
          prev_epr == IF thisPrev THEN this_epr ELSE other_epr
          next_epr == IF thisPrev THEN other_epr ELSE this_epr
          prev_partner == prev_epr.src
          next_partner == next_epr.dst
          prev_c == IF thisPrev THEN c ELSE oc
          prev_a == IF thisPrev THEN a ELSE oa
          next_c == IF thisPrev THEN oc ELSE c
          next_a == IF thisPrev THEN oa ELSE a
          sw == Swapping(w, this_epr, other_epr, ok)
          new_epr == IF sw.name = 0 THEN NoEpr
                     ELSE [sw EXCEPT !.src = next_partner, !.dst = prev_partner]
          own_rank == swap_sequence[RouteIndex(route, n)]
          pi == RouteIndex(route, prev_partner)
          ni == RouteIndex(route, next_partner)
      IN
      IF new_epr.name # 0 /\ (pi = 0 \/ ni = 0) THEN Raise(w)
      ELSE
        LET par1 == IF new_epr.name # 0 /\ own_rank = swap_sequence[pi]
                      THEN DictPut(w.par[n], prev_epr.name,
                             [shared |-> prev_epr, other |-> next_epr, my_new |-> new_epr])
                      ELSE w.par[n]
            par2 == IF new_epr.name # 0 /\ own_rank = swap_sequence[ni]
                      THEN DictPut(par1, next_epr.name,
                             [shared |-> next_epr, other |-> prev_epr, my_new |-> new_epr])
                      ELSE par1
            w1 == [w EXCEPT !.par[n] = par2,
                            !.nextId = IF new_epr.name # 0 THEN @ + 1 ELSE @,
                            !.obs.swaps[n] = @ + 1,
                            !.obs.su_sent = @ + 2,
                            !.obs.nullsu = IF new_epr.name # 0 THEN @
                                 ELSE @ \cup {<<prev_partner, prev_epr.name>>,
                                              <<next_partner, next_epr.name>>}]
            prev_msg == [cmd |-> "SWAP_UPDATE", path_id |-> entry.path_id,
                         swapping_node |-> n, partner |-> next_partner,
                         epr |-> prev_epr.name, new_epr |-> new_epr,
                         destination |-> prev_partner, fwd |-> FALSE]
            next_msg == [cmd |-> "SWAP_UPDATE", path_id |-> entry.path_id,
                         swapping_node |-> n, partner |-> prev_partner,
                         epr |-> next_epr.name, new_epr |-> new_epr,
                         destination |-> next_partner, fwd |-> FALSE]
            w2 == SendSwapUpdate(w1, n, prev_partner, prev_msg, route, FALSE)
            w3 == SendSwapUpdate(w2, n, next_partner, next_msg, route, FALSE)
            w4 == SetState(MemRead(w3, n, c, a), n, c, a, "RELEASE")
            w5 == SetState(MemRead(w4, n, oc, oa), n, oc, oa, "RELEASE")
            w6 == AddEvent(w5, [Ev(w.now, "released", n) EXCEPT
                                  !.ch = prev_c, !.addr = prev_a])
        IN  AddEvent(w6, [Ev(w.now + Eps, "released", n) EXCEPT
                            !.ch = next_c, !.addr = next_a])

\* ProactiveRouting.eligible, the swap of an intermediate node: the qubit
\* of slot a of memory c with the first eligible qubit of memory oc
DoSwap(w, n, c, a, oc, entry, ok) ==
    LET route == entry.path_vector
        swap_sequence == entry.swap_sequence
        oa == FirstIdx(SearchEligible(w, n, oc, entry.path_id))
        this_epr == w.mem[n][c][a].epr
        other_epr == w.mem[n][oc][oa].epr
    IN
    IF this_epr.name = 0 THEN Raise(w)
    ELSE IF this_epr.dst # n /\ this_epr.src # n THEN Raise(w)
    ELSE
      LET thisPrev == this_epr.dst = n
          prev_epr == IF thisPrev THEN this_epr ELSE other_epr
          next_epr == IF thisPrev THEN other_epr ELSE this_epr
          prev_partner == prev_epr.src
          next_partner == next_epr.dst
          prev_c == IF thisPrev THEN c ELSE oc
          prev_a == IF thisPrev THEN a ELSE oa
          next_c == IF thisPrev THEN oc ELSE c
          next_a == IF thisPrev THEN oa ELSE a
          sw == Swapping(w, this_epr, other_epr, ok)
          new_epr == IF sw.name = 0 THEN NoEpr
                     ELSE [sw EXCEPT !.src = prev_partner, !.dst = next_partner]
          own_rank == swap_sequence[RouteIndex(route, n)]
          pi == RouteIndex(route, prev_partner)
          ni == RouteIndex(route, next_partner)
      IN
      IF new_epr.name # 0 /\ (pi = 0 \/ ni = 0) THEN Raise(w)
      ELSE
        LET par1 == IF new_epr.name # 0 /\ own_rank = swap_sequence[pi]
                      THEN DictPut(w.par[n], prev_epr.name,
                             [shared |-> prev_epr, other |-> next_epr, my_new |-> new_epr])
                      ELSE w.par[n]
            par2 == IF new_epr.name # 0 /\ own_rank = swap_sequence[ni]
                      THEN DictPut(par1, next_epr.name,
                             [shared |-> next_epr, other |-> prev_epr, my_new |-> new_epr])
                      ELSE par1
            w1 == [w EXCEPT !.par[n] = par2,
                            !.nextId = IF new_epr.name # 0 THEN @ + 1 ELSE @,
                            !.obs.swaps[n] = @ + 1,
                            !.obs.su_sent = @ + 2,
                            !.obs.nullsu = IF new_epr.name # 0 THEN @
                                 ELSE @ \cup {<<prev_partner, prev_epr.name>>,
                                              <<next_partner, next_epr.name>>}]
            prev_msg == [cmd |-> "SWAP_UPDATE", path_id |-> entry.path_id,
                         swapping_node |-> n, partner |-> next_partner,
                         epr |-> prev_epr.name, new_epr |-> new_epr,
                         destination |-> prev_partner, fwd |-> FALSE]
            next_msg == [cmd |-> "SWAP_UPDATE", path_id |-> entry.path_id,
                         swapping_node |-> n, partner |-> prev_partner,
                         epr |-> next_epr.name, new_epr |-> new_epr,
                         destination |-> next_partner, fwd |-> FALSE]
            w2 == SendSwapUpdate(w1, n, prev_partner, prev_msg, route, FALSE)
            w3 == SendSwapUpdate(w2, n, next_partner, next_msg, route, FALSE)
            w4 == SetState(MemRead(w3, n, c, a), n, c, a, "RELEASE")
            w5 == SetState(MemRead(w4, n, oc, oa), n, oc, oa, "RELEASE")
            w6 == AddEvent(w5, [Ev(w.now, "released", n) EXCEPT
                                  !.ch = prev_c, !.addr = prev_a])
        IN  AddEvent(w6, [Ev(w.now + Eps, "released", n) EXCEPT
                            !.ch = next_c, !.addr = next_a])

\* ProactiveRouting.eligible
Eligible(w, n, c, a, entry, ok) ==
    IF cfg.mode = "SYNC" /\ w.pfPhase[n] # "INTERNAL" THEN Raise(w)
    ELSE
      LET route == entry.path_vector
          own_idx == RouteIndex(route, n)
      IN  IF own_idx > 1 /\ own_idx < Len(route)
            THEN LET oc == CheckEligibleQubit(w, n, c, entry.path_id) IN
                 IF oc = 0 THEN w ELSE DoSwap(w, n, c, a, oc, entry, ok)
            ELSE LET qm == w.mem[n][c][a].epr IN
                 IF qm.name = 0 THEN Raise(w)
                 ELSE LET w1 == ReleaseQubit(w, n, c, a, cfg.names[n] = "S")
                      IN  [w1 EXCEPT !.e2e[n] = @ + 1,
                                     !.obs.consumed = @ \cup
                                        {[node |-> n, name |-> qm.name,
                                          src |-> qm.src, dst |-> qm.dst]}]

\* ProactiveRouting.purif: no purification yet, the qubit becomes eligible
Purif(w, n, c, a, entry, ok) ==
    Eligible(SetState(w, n, c, a, "ELIGIBLE"), n, c, a, entry, ok)

\* handle_entangled_qubit, were the qubit made eligible without to_purif
HandleEntangledQubitNoPurif(w, n, neighbor, c, a, ok) ==
    LET pid == w.mem[n][c][a].pid IN
    IF pid = 0 THEN w
    ELSE LET entry == FibGet(w.fib[n], pid) IN
         IF entry = NoEntry THEN Raise(w)
         ELSE IF EvalSwappingConditions(entry, n, neighbor)
           THEN Purif(w, n, c, a, entry, ok)
           ELSE w

\* ProactiveRouting.handle_entangled_qubit
HandleEntangledQubit(w, n, neighbor, c, a, ok) ==
    LET pid == w.mem[n][c][a].pid IN
    IF pid = 0 THEN w
    ELSE LET entry == FibGet(w.fib[n], pid) IN
         IF entry = NoEntry THEN Raise(w)
         ELSE IF EvalSwappingConditions(entry, n, neighbor)
           THEN Purif(SetState(w, n, c, a, "PURIF"), n, c, a, entry, ok)
           ELSE w

\* ProactiveRouting.handle_event, QubitEntangledEvent
PFHandleEvent(w, n, neighbor, c, a, ok) ==
    IF cfg.mode = "ASYNC" \/ cfg.mode = "LSYNC"
      THEN HandleEntangledQubit(w, n, neighbor, c, a, ok)
      ELSE IF w.pfPhase[n] = "EXTERNAL"
             THEN [w EXCEPT !.pfWaiting[n] = Append(@, <<neighbor, c, a>>)]
             ELSE w

\* ProactiveRouting.handle_sync_signal, the loop over waiting_qubits
RECURSIVE HandleWaiting(_, _, _, _)
HandleWaiting(w, n, evs, ok) ==
    IF evs = <<>> \/ w.fatal THEN w
    ELSE HandleWaiting(
           HandleEntangledQubit(w, n, Head(evs)[1], Head(evs)[2], Head(evs)[3], ok),
           n, Tail(evs), ok)

\* ProactiveRouting.handle_sync_signal
PFHandleSyncSignal(w, n, signal_type, ok) ==
    IF cfg.mode = "SYNC"
      THEN LET w1 == [w EXCEPT !.pfPhase[n] = signal_type] IN
           IF signal_type = "INTERNAL"
             THEN LET w2 == HandleWaiting(w1, n, w1.pfWaiting[n], ok) IN
                  IF w2.fatal THEN w2 ELSE [w2 EXCEPT !.pfWaiting[n] = <<>>]
             ELSE w1
      ELSE w

\* new_epr is None or past its decoherence time
NullOrExpired(w, new_epr) == new_epr.name = 0 \/ new_epr.dt <= w.now

\* the same branch of handle_signaling, were an expired new_epr accepted
SignalHigherRankKeepExpired(w, n, msg, entry, ok) ==
    LET q == GetMemoryQubit(w, n, msg.epr)
        c == q[1]
        a == q[2]
    IN  IF c = 0 THEN w
        ELSE IF msg.new_epr.name = 0
          THEN LET w1 == ReleaseQubit(w, n, c, a, FALSE) IN
               [w1 EXCEPT !.obs.relnull = @ \cup {<<n, msg.epr>>},
                          !.obs.last = [kind |-> "release", node |-> n,
                                        ch |-> c, addr |-> a],
                          !.obs.refused = IF msg.new_epr.name = 0 THEN @
                                          ELSE @ \cup {<<n, msg.new_epr.name>>}]
          ELSE LET w1 == MemUpdate(w, n, c, a, msg.new_epr) IN
               IF EvalSwappingConditions(entry, n, msg.partner)
                 THEN Purif(SetState(w1, n, c, a, "PURIF"), n, c, a, entry, ok)
                 ELSE w1

\* ProactiveRouting.handle_signaling, destination with own_rank > sender_rank
SignalHigherRank(w, n, msg, entry, ok) ==
    LET q == GetMemoryQubit(w, n, msg.epr)
        c == q[1]
        a == q[2]
    IN  IF c = 0 THEN w
        ELSE IF NullOrExpired(w, msg.new_epr)
          THEN LET w1 == ReleaseQubit(w, n, c, a, FALSE) IN
               [w1 EXCEPT !.obs.relnull = @ \cup {<<n, msg.epr>>},
                          !.obs.last = [kind |-> "release", node |-> n,
                                        ch |-> c, addr |-> a],
                          !.obs.refused = IF msg.new_epr.name = 0 THEN @
                                          ELSE @ \cup {<<n, msg.new_epr.name>>}]
          ELSE LET w1 == MemUpdate(w, n, c, a, msg.new_epr) IN
               IF EvalSwappingConditions(entry, n, msg.partner)
                 THEN Purif(SetState(w1, n, c, a, "PURIF"), n, c, a, entry, ok)
                 ELSE w1

\* the equal-rank branch, were the record of a merged swap kept
SignalEqualRankKeepRecord(w, n, msg, entry) ==
    LET q == GetMemoryQubit(w, n, msg.epr)
        c == q[1]
        a == q[2]
        route == entry.path_vector
        swap_sequence == entry.swap_sequence
        own_rank == swap_sequence[RouteIndex(route, n)]
        popped == [w EXCEPT !.par[n] = Restrict(@, (DOMAIN @) \ {msg.epr})]
    IN
    IF c # 0
      THEN IF NullOrExpired(w, msg.new_epr)
             THEN LET w1 == ReleaseQubit(popped, n, c, a, FALSE) IN
                  [w1 EXCEPT !.obs.relnull = @ \cup {<<n, msg.epr>>},
                             !.obs.last = [kind |-> "release", node |-> n,
                                           ch |-> c, addr |-> a]]
             ELSE MemUpdate(popped, n, c, a, msg.new_epr)
    ELSE IF msg.epr \in DOMAIN w.par[n]
      THEN
        LET rec == w.par[n][msg.epr]
            shared_epr == rec.shared
            other_epr == rec.other
            my_new_epr == rec.my_new
            otherPrev == other_epr.dst = n
        IN
        IF NullOrExpired(w, msg.new_epr)
          THEN LET destination == IF otherPrev THEN other_epr.src ELSE other_epr.dst
                   partner == IF otherPrev THEN shared_epr.dst ELSE shared_epr.src
                   fwd_msg == [cmd |-> "SWAP_UPDATE", path_id |-> msg.path_id,
                               swapping_node |-> msg.swapping_node,
                               partner |-> partner, epr |-> my_new_epr.name,
                               new_epr |-> NoEpr, destination |-> destination,
                               fwd |-> TRUE]
                   w1 == [w EXCEPT !.obs.nullsu = @ \cup {<<destination, my_new_epr.name>>},
                                   !.obs.relayed = @ \cup {<<destination, my_new_epr.name>>},
                                   !.obs.su_sent = @ + 1]
                   w2 == SendSwapUpdate(w1, n, destination, fwd_msg, route, TRUE)
               IN  [w2 EXCEPT !.par[n] = Restrict(@, (DOMAIN @) \ {msg.epr})]
          ELSE LET new_epr == msg.new_epr
                   sw == Swapping(w, new_epr, other_epr, TRUE)
                   merged_epr == IF otherPrev
                                   THEN [sw EXCEPT !.src = other_epr.src, !.dst = new_epr.dst]
                                   ELSE [sw EXCEPT !.src = new_epr.src, !.dst = other_epr.dst]
                   partner == IF otherPrev THEN new_epr.dst ELSE new_epr.src
                   destination == IF otherPrev THEN other_epr.src ELSE other_epr.dst
                   fwd_msg == [cmd |-> "SWAP_UPDATE", path_id |-> msg.path_id,
                               swapping_node |-> msg.swapping_node,
                               partner |-> partner, epr |-> my_new_epr.name,
                               new_epr |-> merged_epr, destination |-> destination,
                               fwd |-> TRUE]
                   w1 == SendSwapUpdate([w EXCEPT !.nextId = @ + 1,
                                                  !.obs.su_sent = @ + 1,
                                                  !.obs.contd = @ \cup
                                                     {<<destination, my_new_epr.name>>}], n,
                                        destination, fwd_msg, route, TRUE)
                   w2 == [w1 EXCEPT !.obs.merges = @ + 1]
                   p_idx == RouteIndex(route, partner)
               IN  IF p_idx = 0 THEN Raise(w2)
                   ELSE IF own_rank = swap_sequence[p_idx]
                     THEN [w2 EXCEPT !.par[n] = DictPut(@, new_epr.name,
                              [shared |-> new_epr, other |-> other_epr,
                               my_new |-> merged_epr])]
                     ELSE w2
    ELSE w

\* the equal-rank branch, were the continuation of a failed swap sent
\* without the extra delay
SignalEqualRankPromptNull(w, n, msg, entry) ==
    LET q == GetMemoryQubit(w, n, msg.epr)
        c == q[1]
        a == q[2]
        route == entry.path_vector
        swap_sequence == entry.swap_sequence
        own_rank == swap_sequence[RouteIndex(route, n)]
        popped == [w EXCEPT !.par[n] = Restrict(@, (DOMAIN @) \ {msg.epr})]
    IN
    IF c # 0
      THEN IF NullOrExpired(w, msg.new_epr)
             THEN LET w1 == ReleaseQubit(popped, n, c, a, FALSE) IN
                  [w1 EXCEPT !.obs.relnull = @ \cup {<<n, msg.epr>>},
                             !.obs.last = [kind |-> "release", node |-> n,
                                           ch |-> c, addr |-> a]]
             ELSE MemUpdate(popped, n, c, a, msg.new_epr)
    ELSE IF msg.epr \in DOMAIN w.par[n]
      THEN
        LET rec == w.par[n][msg.epr]
            shared_epr == rec.shared
            other_epr == rec.other
            my_new_epr == rec.my_new
            otherPrev == other_epr.dst = n
        IN
        IF NullOrExpired(w, msg.new_epr)
          THEN LET destination == IF otherPrev THEN other_epr.src ELSE other_epr.dst
                   partner == IF otherPrev THEN shared_epr.dst ELSE shared_epr.src
                   fwd_msg == [cmd |-> "SWAP_UPDATE", path_id |-> msg.path_id,
                               swapping_node |-> msg.swapping_node,
                               partner |-> partner, epr |-> my_new_epr.name,
                               new_epr |-> NoEpr, destination |-> destination,
                               fwd |-> TRUE]
                   w1 == [w EXCEPT !.obs.nullsu = @ \cup {<<destination, my_new_epr.name>>},
                                   !.obs.relayed = @ \cup {<<destination, my_new_epr.name>>},
                                   !.obs.su_sent = @ + 1]
                   w2 == SendSwapUpdate(w1, n, destination, fwd_msg, route, FALSE)
               IN  [w2 EXCEPT !.par[n] = Restrict(@, (DOMAIN @) \ {msg.epr})]
          ELSE LET new_epr == msg.new_epr
                   sw == Swapping(w, new_epr, other_epr, TRUE)
                   merged_epr == IF otherPrev
                                   THEN [sw EXCEPT !.src = other_epr.src, !.dst = new_epr.dst]
                                   ELSE [sw EXCEPT !.src = new_epr.src, !.dst = other_epr.dst]
                   partner == IF otherPrev THEN new_epr.dst ELSE new_epr.src
                   destination == IF otherPrev THEN other_epr.src ELSE other_epr.dst
                   fwd_msg == [cmd |-> "SWAP_UPDATE", path_id |-> msg.path_id,
                               swapping_node |-> msg.swapping_node,
                               partner |-> partner, epr |-> my_new_epr.name,
                               new_epr |-> merged_epr, destination |-> destination,
                               fwd |-> TRUE]
                   w1 == SendSwapUpdate([w EXCEPT !.nextId = @ + 1,
                                                  !.obs.su_sent = @ + 1,
                                                  !.obs.contd = @ \cup
                                                     {<<destination, my_new_epr.name>>}], n,
                                        destination, fwd_msg, route, TRUE)
                   w2 == [w1 EXCEPT !.par[n] = Restrict(@, (DOMAIN @) \ {msg.epr}),
                                    !.obs.merges = @ + 1]
                   p_idx == RouteIndex(route, partner)
               IN  IF p_idx = 0 THEN Raise(w2)
                   ELSE IF own_rank = swap_sequence[p_idx]
                     THEN [w2 EXCEPT !.par[n] = DictPut(@, new_epr.name,
                              [shared |-> new_epr, other |-> other_epr,
                               my_new |-> merged_epr])]
                     ELSE w2
    ELSE w

\* ProactiveRouting.handle_signaling, destination with own_rank = sender_rank
SignalEqualRank(w, n, msg, entry) ==
    LET q == GetMemoryQubit(w, n, msg.epr)
        c == q[1]
        a == q[2]
        route == entry.path_vector
        swap_sequence == entry.swap_sequence
        own_rank == swap_sequence[RouteIndex(route, n)]
        popped == [w EXCEPT !.par[n] = Restrict(@, (DOMAIN @) \ {msg.epr})]
    IN
    IF c # 0
      THEN IF NullOrExpired(w, msg.new_epr)
             THEN LET w1 == ReleaseQubit(popped, n, c, a, FALSE) IN
                  [w1 EXCEPT !.obs.relnull = @ \cup {<<n, msg.epr>>},
                             !.obs.last = [kind |-> "release", node |-> n,
                                           ch |-> c, addr |-> a]]
             ELSE MemUpdate(popped, n, c, a, msg.new_epr)
    ELSE IF msg.epr \in DOMAIN w.par[n]
      THEN
        LET rec == w.par[n][msg.epr]
            shared_epr == rec.shared
            other_epr == rec.other
            my_new_epr == rec.my_new
            otherPrev == other_epr.dst = n
        IN
        IF NullOrExpired(w, msg.new_epr)
          THEN LET destination == IF otherPrev THEN other_epr.src ELSE other_epr.dst
                   partner == IF otherPrev THEN shared_epr.dst ELSE shared_epr.src
                   fwd_msg == [cmd |-> "SWAP_UPDATE", path_id |-> msg.path_id,
                               swapping_node |-> msg.swapping_node,
                               partner |-> partner, epr |-> my_new_epr.name,
                               new_epr |-> NoEpr, destination |-> destination,
                               fwd |-> TRUE]
                   w1 == [w EXCEPT !.obs.nullsu = @ \cup {<<destination, my_new_epr.name>>},
                                   !.obs.relayed = @ \cup {<<destination, my_new_epr.name>>},
                                   !.obs.su_sent = @ + 1]
                   w2 == SendSwapUpdate(w1, n, destination, fwd_msg, route, TRUE)
               IN  [w2 EXCEPT !.par[n] = Restrict(@, (DOMAIN @) \ {msg.epr})]
          ELSE LET new_epr == msg.new_epr
                   sw == Swapping(w, new_epr, other_epr, TRUE)
                   merged_epr == IF otherPrev
                                   THEN [sw EXCEPT !.src = other_epr.src, !.dst = new_epr.dst]
                                   ELSE [sw EXCEPT !.src = new_epr.src, !.dst = other_epr.dst]
                   partner == IF otherPrev THEN new_epr.dst ELSE new_epr.src
                   destination == IF otherPrev THEN other_epr.src ELSE other_epr.dst
                   fwd_msg == [cmd |-> "SWAP_UPDATE", path_id |-> msg.path_id,
                               swapping_node |-> msg.swapping_node,
                               partner |-> partner, epr |-> my_new_epr.name,
                               new_epr |-> merged_epr, destination |-> destination,
                               fwd |-> TRUE]
                   w1 == SendSwapUpdate([w EXCEPT !.nextId = @ + 1,
                                                  !.obs.su_sent = @ + 1,
                                                  !.obs.contd = @ \cup
                                                     {<<destination, my_new_epr.name>>}], n,
                                        destination, fwd_msg, route, TRUE)
                   w2 == [w1 EXCEPT !.par[n] = Restrict(@, (DOMAIN @) \ {msg.epr}),
                                    !.obs.merges = @ + 1]
                   p_idx == RouteIndex(route, partner)
               IN  IF p_idx = 0 THEN Raise(w2)
                   ELSE IF own_rank = swap_sequence[p_idx]
                     THEN [w2 EXCEPT !.par[n] = DictPut(@, new_epr.name,
                              [shared |-> new_epr, other |-> other_epr,
                               my_new |-> merged_epr])]
                     ELSE w2
    ELSE w

\* handle_signaling, were a SWAP_UPDATE forwarded as it was received
PFHandleSignalingSameFwd(w, n, msg, ok) ==
    IF cfg.mode = "SYNC" /\ w.pfPhase[n] # "INTERNAL" THEN Raise(w)
    ELSE
      LET entry == FibGet(w.fib[n], msg.path_id) IN
      IF entry = NoEntry THEN Raise(w)
      ELSE
        LET route == entry.path_vector
            swap_sequence == entry.swap_sequence
            sender_idx == RouteIndex(route, msg.swapping_node)
            own_idx == RouteIndex(route, n)
        IN
        IF sender_idx = 0 \/ own_idx = 0 THEN Raise(w)
        ELSE
          LET sender_rank == swap_sequence[sender_idx]
              own_rank == swap_sequence[own_idx]
              w0 == IF msg.fwd THEN w
                    ELSE [w EXCEPT !.obs.swap_count[msg.swapping_node] = @ + 1]
              w1 == [w0 EXCEPT !.obs.su_done = @ + 1,
                               !.obs.told = IF msg.new_epr.name = 0 THEN @
                                    ELSE @ \cup {<<n, msg.new_epr.name, w.now>>}]
          IN
          IF msg.destination = n
            THEN IF own_rank > sender_rank THEN SignalHigherRank(w1, n, msg, entry, ok)
                 ELSE IF own_rank = sender_rank THEN SignalEqualRank(w1, n, msg, entry)
                 ELSE w1
            ELSE IF own_rank <= sender_rank
                   THEN SendSwapUpdate(w0, n, msg.destination,
                                       msg, route, FALSE)
                   ELSE w0

\* ProactiveRouting.handle_signaling (SWAP_UPDATE)
PFHandleSignaling(w, n, msg, ok) ==
    IF cfg.mode = "SYNC" /\ w.pfPhase[n] # "INTERNAL" THEN Raise(w)
    ELSE
      LET entry == FibGet(w.fib[n], msg.path_id) IN
      IF entry = NoEntry THEN Raise(w)
      ELSE
        LET route == entry.path_vector
            swap_sequence == entry.swap_sequence
            sender_idx == RouteIndex(route, msg.swapping_node)
            own_idx == RouteIndex(route, n)
        IN
        IF sender_idx = 0 \/ own_idx = 0 THEN Raise(w)
        ELSE
          LET sender_rank == swap_sequence[sender_idx]
              own_rank == swap_sequence[own_idx]
              w0 == IF msg.fwd THEN w
                    ELSE [w EXCEPT !.obs.swap_count[msg.swapping_node] = @ + 1]
              w1 == [w0 EXCEPT !.obs.su_done = @ + 1,
                               !.obs.told = IF msg.new_epr.name = 0 THEN @
                                    ELSE @ \cup {<<n, msg.new_epr.name, w.now>>}]
          IN
          IF msg.destination = n
            THEN IF own_rank > sender_rank THEN SignalHigherRank(w1, n, msg, entry, ok)
                 ELSE IF own_rank = sender_rank THEN SignalEqualRank(w1, n, msg, entry)
                 ELSE w1
            ELSE IF own_rank <= sender_rank
                   THEN SendSwapUpdate(w0, n, msg.destination,
                                       [msg EXCEPT !.fwd = TRUE], route, FALSE)
                   ELSE w0

\* QuantumMemory.allocate called num times
RECURSIVE AllocateN(_, _, _, _, _)
AllocateN(w, n, c, path_id, num) ==
    IF num <= 0 THEN w
    ELSE AllocateN(MemAllocate(w, n, c, path_id), n, c, path_id, num - 1)

\* ProactiveRouting.compute_qubit_allocation: <<prev, next>>, 0 for None
ComputeQubitAllocation(route, m_v, idx) ==
    << IF idx > 1 THEN m_v[idx - 1] ELSE 0,
       IF idx <= Len(m_v) THEN m_v[idx] ELSE 0 >>

\* ProactiveRouting.handle_control, the allocation in one memory
\* (c = 0 when the node has no neighbour on that side)
ControlAllocate(w, n, c, path_id, hasMv, num) ==
    IF c = 0 THEN w
    ELSE IF hasMv
      THEN IF num = 0 THEN w
           ELSE IF num >= Free(w, n, c) THEN AllocateN(w, n, c, path_id, num)
           ELSE Raise(w)
      ELSE IF Free(w, n, c) = Capacity(w, n, c)
             THEN AllocateN(w, n, c, path_id, Free(w, n, c))
             ELSE Raise(w)

\* ProactiveRouting.handle_control: install a path (blocking mux)
HandleControl(w, n, path_id, route, swap, m_v) ==
    LET i == RouteIndex(route, n) IN
    IF i = 0 THEN Raise(w)
    ELSE
      LET pn == IF i > 1 THEN route[i - 1] ELSE 0
          nn == IF i < Len(route) THEN route[i + 1] ELSE 0
      IN
      IF (pn # 0 /\ ~Adjacent(n, pn)) \/ (nn # 0 /\ ~Adjacent(n, nn)) THEN Raise(w)
      ELSE
        LET nums == IF m_v # <<>> THEN ComputeQubitAllocation(route, m_v, i)
                    ELSE <<0, 0>>
            w1 == ControlAllocate(w, n, IF pn # 0 THEN ChanTo(n, pn) ELSE 0,
                                  path_id, m_v # <<>>, nums[1])
            w2 == IF w1.fatal THEN w1
                  ELSE ControlAllocate(w1, n, IF nn # 0 THEN ChanTo(n, nn) ELSE 0,
                                       path_id, m_v # <<>>, nums[2])
        IN
        IF w2.fatal THEN w2
        ELSE
          LET w3 == [w2 EXCEPT !.fib[n] =
                        FibInsertOrReplace(@, FIBEntry(path_id, 0, route, swap))]
          IN  IF nn # 0
                THEN AddEvent(w3, [Ev(w.now, "manage", n) EXCEPT
                                     !.frm = nn, !.add = TRUE])
                ELSE w3

(***************************************************************************)
(* The simulation: the state after the network is installed with the       *)
(* controller's install messages delivered at time 0, and one action per   *)
(* kind of event taken from the head of the event pool.                    *)
(***************************************************************************)
\* the memory driven directly through its interface, without a network
MemTest == Scenario("memtest", <<"n1", "peer">>, <<0, 0>>, <<2>>, <<1>>, 2,
                    FALSE, FALSE, "ASYNC")

RECURSIVE ControlEvents(_, _)
ControlEvents(c, i) ==
    IF i > c.n THEN <<>>
    ELSE <<[Ev(0, "control", i) EXCEPT !.path_id = 1, !.route = Route(c),
                                       !.swap = c.swap, !.m_v = c.m_v]>>
         \o ControlEvents(c, i + 1)

\* a timing signal of the network
SyncEv(t, signal_type) == [Ev(t, "sync", 0) EXCEPT !.msg.cmd = signal_type]

\* the first timing signal, sent when the simulation starts
FirstSync(c) ==
    IF c.mode = "LSYNC" THEN <<SyncEv(0, "EXTERNAL_START")>>
    ELSE IF c.mode = "SYNC" THEN <<SyncEv(0, "EXTERNAL")>>
    ELSE <<>>

\* the LinkLayerManageActiveChannels events of the scenario, put in the pool
RECURSIVE WithManageEvents(_, _)
WithManageEvents(q, evs) ==
    IF evs = <<>> THEN q
    ELSE WithManageEvents(
           InsertEv(q, [Ev(Head(evs)[1], "manage", Head(evs)[2]) EXCEPT
                          !.frm = Head(evs)[3], !.add = Head(evs)[4]]),
           Tail(evs))

\* the timing signal reaches the link layer and the forwarder of every
\* node, then the network schedules the next signal
RECURSIVE SignalNodes(_, _, _, _)
SignalNodes(w, n, signal_type, ok) ==
    IF n > cfg.n \/ w.fatal THEN w
    ELSE SignalNodes(
           PFHandleSyncSignal(LLHandleSyncSignal(w, n, signal_type),
                              n, signal_type, ok),
           n + 1, signal_type, ok)

SendSyncSignal(w, signal_type, ok) ==
    LET w1 == SignalNodes(w, 1, signal_type, ok)
        nxt == IF signal_type = "EXTERNAL_START"
                 THEN SyncEv(w.now + cfg.t_slot, "EXTERNAL_START")
               ELSE IF signal_type = "EXTERNAL"
                 THEN SyncEv(w.now + cfg.t_ext, "INTERNAL")
               ELSE SyncEv(w.now + cfg.t_int, "EXTERNAL")
    IN  IF w1.fatal THEN w1 ELSE AddEvent(w1, nxt)

NoLast == [kind |-> "none", node |-> 0, ch |-> 0, addr |-> 0]

\* no function of the library is called on its own in a simulation
NoCalc == [op |-> "none"]

InitObs ==
    [attempts |-> [n \in Nodes |-> 0], decoh |-> [n \in Nodes |-> 0],
     swaps |-> [n \in Nodes |-> 0], swap_count |-> [n \in Nodes |-> 0],
     inflight |-> [n \in Nodes |-> [c \in Chans |-> 0]],
     consumed |-> {}, refused |-> {}, relnull |-> {}, nullsu |-> {},
     relayed |-> {}, contd |-> {}, cut |-> {}, told |-> {},
     su_sent |-> 0, su_done |-> 0,
     last |-> NoLast, merges |-> 0, calls |-> 0,
     waves |-> [n \in Nodes |-> 0], ev |-> Ev(0, "none", 0), out |-> <<>>,
     cycle |-> <<0, 0>>, fsm |-> <<>>, su |-> <<>>,
     lost |-> FALSE]

InitNet(c) ==
    /\ cfg = c
    /\ now = 0
    /\ queue = IF c.name = "memtest" THEN <<>>
               ELSE WithManageEvents(FirstSync(c) \o ControlEvents(c, 1),
                                     c.manage)
    /\ mem = [n \in Nodes |-> [k \in Chans |->
                 IF n <= c.n /\ k \in NodeChans(c, n)
                   THEN [i \in 1..c.cap[k] |-> EmptySlot] ELSE <<>>]]
    /\ usage = [n \in Nodes |-> [k \in Chans |-> 0]]
    /\ nextId = 1
    /\ fatal = FALSE
    /\ active = [n \in Nodes |-> {}]
    /\ waitingCh = [n \in Nodes |-> {}]
    /\ waitingQ = [n \in Nodes |-> {}]
    /\ llPhase = [n \in Nodes |-> "EXTERNAL"]
    /\ pfPhase = [n \in Nodes |-> "INTERNAL"]
    /\ pfWaiting = [n \in Nodes |-> <<>>]
    /\ par = [n \in Nodes |-> <<>>]
    /\ e2e = [n \in Nodes |-> 0]
    /\ obs = InitObs

Init ==
    /\ \E c \in Scenarios \cup {MemTest} : InitNet(c)
    /\ fib = [n \in Nodes |-> EmptyFib]
    /\ fibLast = [p \in PathIds |-> NoEntry]
    /\ fibPrev = EmptyFib
    /\ fibCall = [op |-> "none", path_id |-> 0, absent |-> TRUE]
    /\ calc = NoCalc

\* the simulator takes the first event of the pool and advances the clock
Dispatch(kind) == queue # <<>> /\ ~fatal /\ Head(queue).kind = kind
Taken == [World EXCEPT !.now = Head(queue).t, !.queue = Tail(queue),
                       !.obs.last = NoLast, !.obs.ev = Head(queue),
                       !.obs.out = <<>>, !.obs.fsm = <<>>, !.obs.su = <<>>,
                       !.obs.lost = FALSE]

SwapOutcomes == IF cfg.psfail THEN BOOLEAN ELSE {TRUE}
LossOutcomes == IF cfg.loss THEN BOOLEAN ELSE {FALSE}

RecvControl ==
    /\ Dispatch("control")
    /\ LET ev == Head(queue) IN
       Commit(HandleControl(Taken, ev.node, ev.path_id, ev.route, ev.swap, ev.m_v))

LLManage ==
    /\ Dispatch("manage")
    /\ LET ev == Head(queue) IN
       Commit(ManageActiveChannels(Taken, ev.node, ev.frm, ev.add))

LLGenerate ==
    /\ Dispatch("generate")
    /\ LET ev == Head(queue) IN
       Commit(GenerateEntanglement(Taken, ev.node, ev.ch, 0))

RecvQubit ==
    /\ Dispatch("recv_qubit")
    /\ \E lost \in LossOutcomes :
         LET ev == Head(queue) IN
         Commit(HandleDistribution([Taken EXCEPT !.obs.lost = lost],
                                   ev.node, ev.ch, ev.epr, lost))

LLRecvClassic ==
    /\ Dispatch("ll_signal")
    /\ LET ev == Head(queue) IN
       Commit(LLHandleSignaling(Taken, ev.node, ev.frm, ev.msg))

PFRecvClassic ==
    /\ Dispatch("pf_signal")
    /\ \E ok \in SwapOutcomes :
         LET ev == Head(queue) IN
         Commit(PFHandleSignaling(Taken, ev.node, ev.msg, ok))

QubitEntangled ==
    /\ Dispatch("entangled")
    /\ \E ok \in SwapOutcomes :
         LET ev == Head(queue) IN
         Commit(PFHandleEvent(Taken, ev.node, ev.frm, ev.ch, ev.addr, ok))

QubitDecohered ==
    /\ Dispatch("decohered")
    /\ LET ev == Head(queue) IN
       Commit(LLQubitDecohered(Taken, ev.node, ev.ch, ev.addr))

QubitReleased ==
    /\ Dispatch("released")
    /\ LET ev == Head(queue) IN
       Commit(LLQubitReleased(Taken, ev.node, ev.ch, ev.addr))

SyncSignal ==
    /\ Dispatch("sync")
    /\ \E ok \in SwapOutcomes :
         Commit(SendSyncSignal(Taken, Head(queue).msg.cmd, ok))

DecoherenceTimer ==
    /\ Dispatch("decohere")
    /\ LET ev == Head(queue) IN
       Commit(MemDecohere(Taken, ev.node, ev.ch, ev.addr, ev.epr.name))

(***************************************************************************)
(* A memory on its own, driven through its interface as the unit tests do: *)
(* the memory of node 1 in the scenario MemTest.                           *)
(***************************************************************************)
TestCall == cfg.name = "memtest" /\ ~fatal /\ obs.calls < MaxCalls
Called == [World EXCEPT !.obs.calls = @ + 1, !.obs.last = NoLast,
                        !.obs.ev = Ev(0, "none", 0), !.obs.out = <<>>,
                        !.obs.fsm = <<>>, !.obs.su = <<>>]

\* the call made by the driver and what it returned: the address of the
\* slot and the name of the pair, 0 for none; cycle = <<a, k>> counts how
\* far slot a is in the sequence written by key (1), write by key refused
\* (2), read out (3), written by key again (4)
CalledAs(kind, pid, a) ==
    [Called EXCEPT !.obs.ev = [Ev(now, kind, 1) EXCEPT
                                 !.ch = 1, !.addr = a, !.path_id = pid]]
Returned(w, name, a) ==
    LET kind == w.obs.ev.kind
        slot == w.obs.ev.addr
        at == w.obs.cycle
        nxt == IF kind = "write_key" /\ a # 0
                 THEN (IF at = <<a, 3>> THEN <<a, 4>> ELSE <<a, 1>>)
               ELSE IF kind = "write_key" /\ at = <<slot, 1>> THEN <<slot, 2>>
               ELSE IF kind = "read" /\ a # 0 /\ at = <<a, 2>> THEN <<a, 3>>
               ELSE at
    IN  [Out(w, Call("return", 1, 0, "", name, 1, a, w.now))
            EXCEPT !.obs.cycle = nxt]

TestAllocate ==
    /\ TestCall
    /\ \E pid \in PathIds : Commit(MemAllocate(Called, 1, 1, pid))

TestDeallocate ==
    /\ TestCall
    /\ \E a \in 1..3 : Commit(MemDeallocate(Called, 1, 1, a))

TestWrite ==
    /\ TestCall
    /\ \E pid \in {0, 1}, address \in {0, 2} :
         LET a == MemWriteAddr(Called, 1, 1, pid, address)
             epr == [NoEpr EXCEPT !.name = nextId, !.src = 1, !.dst = 2]
         IN  IF a = 0 THEN Commit(Called)
             ELSE Commit(MemWrite([Called EXCEPT !.nextId = @ + 1], 1, 1, epr, a, 0))

\* mem.write(epr, path_id, key)
TestWriteKey ==
    /\ TestCall
    /\ \E pid \in PathIds, key \in 1..2 :
         LET w0 == CalledAs("write_key", pid, key)
             a == MemWriteKey(w0, 1, 1, pid, key)
             epr == [NoEpr EXCEPT !.name = nextId, !.src = 1, !.dst = 2]
         IN  IF a = 0
               THEN Commit(Returned(w0, 0, 0))
               ELSE Commit(Returned(MemWrite([w0 EXCEPT !.nextId = @ + 1],
                                             1, 1, epr, a, 0),
                                    epr.name, a))

TestRead ==
    /\ TestCall
    /\ \E a \in 1..2 :
         LET w0 == CalledAs("read", 0, a) IN
         Commit(Returned(MemRead(w0, 1, 1, a), mem[1][1][a].epr.name,
                         IF mem[1][1][a].epr.name = 0 THEN 0 ELSE a))

TestUpdate ==
    /\ TestCall
    /\ \E a \in 1..2 :
         /\ mem[1][1][a].epr.name # 0
         /\ Commit(MemUpdate([Called EXCEPT !.nextId = @ + 1], 1, 1, a,
                             [mem[1][1][a].epr EXCEPT !.name = nextId]))

TestClear ==
    /\ TestCall
    /\ Commit(MemClear(Called, 1, 1))

Next ==
    \/ RecvControl
    \/ LLManage
    \/ LLGenerate
    \/ RecvQubit
    \/ LLRecvClassic
    \/ PFRecvClassic
    \/ QubitEntangled
    \/ QubitDecohered
    \/ QubitReleased
    \/ DecoherenceTimer
    \/ SyncSignal
    \/ TestAllocate
    \/ TestDeallocate
    \/ TestWrite
    \/ TestWriteKey
    \/ TestRead
    \/ TestUpdate
    \/ TestClear

Spec == Init /\ [][Next]_vars

(***************************************************************************)
(* The FIB alone: any sequence of insert_or_replace and erase calls on the *)
(* table of node 1.                                                        *)
(***************************************************************************)
FibRoutes == {<<1, 2, 3>>, <<1, 2, 3, 4>>}
FibSwap(route) == IF Len(route) = 3 THEN <<1, 0, 1>> ELSE <<2, 0, 1, 2>>

InitFib ==
    /\ InitNet(MemTest)
    /\ fib = [n \in Nodes |-> EmptyFib]
    /\ fibLast = [p \in PathIds |-> NoEntry]
    /\ fibPrev = EmptyFib
    /\ fibCall = [op |-> "none", path_id |-> 0, absent |-> TRUE]
    /\ calc = NoCalc

CallInsertOrReplace ==
    \E pid \in PathIds, rid \in ReqIds, route \in FibRoutes :
        LET entry == FIBEntry(pid, rid, route, FibSwap(route)) IN
        /\ fib' = [fib EXCEPT ![1] = FibInsertOrReplace(fib[1], entry)]
        /\ fibLast' = [fibLast EXCEPT ![pid] = entry]
        /\ fibPrev' = fib[1]
        /\ fibCall' = [op |-> "insert", path_id |-> pid,
                       absent |-> pid \notin DOMAIN fib[1].table]
        /\ UNCHANGED netvars

CallErase ==
    \E pid \in PathIds :
        /\ fib' = [fib EXCEPT ![1] = FibErase(fib[1], pid)]
        /\ fibLast' = [fibLast EXCEPT ![pid] = NoEntry]
        /\ fibPrev' = fib[1]
        /\ fibCall' = [op |-> "erase", path_id |-> pid,
                       absent |-> pid \notin DOMAIN fib[1].table]
        /\ UNCHANGED netvars

NextFib == CallInsertOrReplace \/ CallErase

SpecFib == InitFib /\ [][NextFib]_vars

(***************************************************************************)
(* C9: after any sequence of insert_or_replace and erase calls the table   *)
(* holds exactly the entry of the last insert for every path_id whose last *)
(* call was insert_or_replace and no entry for the others, and an erase of *)
(* an absent path_id changes neither the table nor the request index.      *)
(***************************************************************************)
C9_TableIsLastInsert ==
    /\ \A p \in PathIds :
          /\ (p \in DOMAIN fib[1].table) <=> (fibLast[p] # NoEntry)
          /\ FibGet(fib[1], p) = fibLast[p]
    /\ DOMAIN fib[1].table \subseteq PathIds
    /\ (fibCall.op = "erase" /\ fibCall.absent) => fib[1] = fibPrev

\* an entry was replaced by a later insert of the same path_id, and an
\* erase of an absent path_id was made
C9_Witness ==
    /\ fibCall.op = "erase" /\ fibCall.absent
    /\ \E p \in PathIds : p \in DOMAIN fib[1].table
                          /\ fib[1].table[p].request_id = 2

(***************************************************************************)
(* C10: the request index agrees with the table: for every request_id r,   *)
(* list_path_ids_by_request_id(r) is the set of path_ids whose entry has   *)
(* request_id r, and no key of the index maps to an empty set.             *)
(***************************************************************************)
C10_IndexConsistent ==
    /\ \A r \in ReqIds :
          ListPathIdsByRequestId(fib[1], r)
            = {p \in DOMAIN fib[1].table : fib[1].table[p].request_id = r}
    /\ \A r \in DOMAIN fib[1].req_path_map : fib[1].req_path_map[r] # {}
    /\ DOMAIN fib[1].req_path_map \subseteq ReqIds

\* a path_id was moved from one request to another by a replace
C10_Witness ==
    /\ fibCall.op = "insert" /\ ~fibCall.absent
    /\ fibPrev.table[fibCall.path_id].request_id
         # fib[1].table[fibCall.path_id].request_id
    /\ fibCall.path_id
         \notin ListPathIdsByRequestId(fib[1],
                    fibPrev.table[fibCall.path_id].request_id)


(***************************************************************************)
(* Vocabulary of the properties.                                           *)
(***************************************************************************)
PathNodes == 1..cfg.n
Interior == {n \in PathNodes : n > 1 /\ n < cfg.n}
Memories == {nc \in PathNodes \X Chans : nc[2] \in NodeChans(cfg, nc[1])}
InstalledEntry == FIBEntry(1, 0, Route(cfg), cfg.swap)

RECURSIVE SumOver(_, _)
SumOver(f, S) ==
    IF S = {} THEN 0
    ELSE LET x == CHOOSE y \in S : TRUE IN f[x] + SumOver(f, S \ {x})

\* node n holds the pair called name in one of its memories
Holds(n, name) == GetMemoryQubit(World, n, name) # <<0, 0>>

\* a SWAP_UPDATE without new_epr for the pair r[2] is on its way to node r[1]
NullPending(r) ==
    \E i \in DOMAIN queue :
        /\ queue[i].kind = "pf_signal"
        /\ queue[i].msg.destination = r[1]
        /\ queue[i].msg.epr = r[2]
        /\ queue[i].msg.new_epr.name = 0

\* a QubitReleasedEvent for the slot is scheduled at the current time
ReleasedEventFor(n, c, a) ==
    \E i \in DOMAIN queue :
        /\ queue[i].kind = "released" /\ queue[i].t = now
        /\ queue[i].node = n /\ queue[i].ch = c /\ queue[i].addr = a

C2_NullUpdateReleases ==
    /\ \A r \in obs.nullsu :
          Holds(r[1], r[2]) => (NullPending(r) \/ r \in obs.cut)
    /\ obs.last.kind = "release" =>
          /\ mem[obs.last.node][obs.last.ch][obs.last.addr].epr.name = 0
          /\ mem[obs.last.node][obs.last.ch][obs.last.addr].st = "RELEASE"
          /\ ReleasedEventFor(obs.last.node, obs.last.ch, obs.last.addr)

\* a relayed SWAP_UPDATE without new_epr has released the slot of its
\* destination
C2_Witness ==
    /\ obs.last.kind = "release"
    /\ \E r \in obs.relayed : r \in obs.relnull /\ r[1] = obs.last.node

(***************************************************************************)
(* C3: no endpoint counts an end-to-end success for a pair that the other  *)
(* endpoint releases without consuming it.                                 *)
(***************************************************************************)
C3_BothEndpointsConsume ==
    \A c \in obs.consumed :
        c.node \in {1, cfg.n} =>
            <<(IF c.node = 1 THEN cfg.n ELSE 1), c.name>> \notin obs.refused

(***************************************************************************)
(* C4 as stated: with ps = 1, no decoherence and swapping enabled, the     *)
(* swaps made by the intermediate nodes number e2e_count * (len(path) - 2) *)
(* in every state.                                                         *)
(***************************************************************************)
IdealRun == ~cfg.psfail /\ ~cfg.loss /\ cfg.tcoh = 0 /\ cfg.name # "memtest"
                        /\ ~IsSwapDisabled(InstalledEntry)

Settled ==
    /\ obs.su_sent = obs.su_done
    /\ \A nc \in Memories : \A i \in DOMAIN mem[nc[1]][nc[2]] :
          ~mem[nc[1]][nc[2]][i].epr.orig

C5_MergeGivesEndToEndPair ==
    cfg.swap = <<0, 1, 1, 1, 0>> =>
        \A c \in obs.consumed : c.src = 1 /\ c.dst = cfg.n

(***************************************************************************)
(* C6: with swap_sequence [0,0,0] on S,R,D the intermediate node R never   *)
(* swaps and e2e_count stays zero at S and at D.                           *)
(***************************************************************************)
C6_DisabledNeverSwaps ==
    cfg.swap = <<0, 0, 0>> =>
        /\ obs.swaps[2] = 0
        /\ e2e[1] = 0
        /\ e2e[3] = 0

\* the coherence time is shorter than the delay of every channel
ShortCoherence ==
    cfg.name # "memtest" /\ cfg.tcoh # 0
                         /\ \A c \in 1..(cfg.n - 1) : cfg.tcoh < cfg.d[c]

(***************************************************************************)
(* C7: when the coherence time is shorter than the propagation delay the   *)
(* run goes on without a success: every attempt of S expires (all but the  *)
(* attempts still within their coherence time have produced a             *)
(* QubitDecoheredEvent at S), no handler fails and e2e_count is 0 at every *)
(* node.                                                                   *)
(***************************************************************************)
C7_EveryAttemptExpires ==
    ShortCoherence =>
        /\ ~fatal
        /\ \A n \in PathNodes : e2e[n] = 0
        /\ obs.decoh[1] <= obs.attempts[1]
        /\ obs.attempts[1] <= obs.decoh[1] + cfg.cap[1]

(***************************************************************************)
(* C8: for every active channel the number of attempts of its initiator    *)
(* whose ack has not been processed is at most the capacity of the         *)
(* initiator's memory for the channel.                                     *)
(***************************************************************************)
C8_InFlightBounded ==
    \A nc \in Memories :
        nc[2] \in active[nc[1]] =>
            obs.inflight[nc[1]][nc[2]] <= Capacity(World, nc[1], nc[2])

(***************************************************************************)
(* Vocabulary of the handler contracts: a step of the run handles the      *)
(* event obs'.ev; the calls the handler made are listed in obs'.out.       *)
(***************************************************************************)
\* the link layer of node n is allowed to run
LLLive(n) == cfg.mode # "SYNC" \/ llPhase[n] = "EXTERNAL"

\* the calls of one kind in a list of calls
Calls(out, call) == SelectSeq(out, LAMBDA r : r.call = call)

\* the events of one kind for node n in an event pool
EventsOf(q, kind, n) == {i \in DOMAIN q : q[i].kind = kind /\ q[i].node = n}

\* the slots of a memory that differ between two states of the memories
Changed(m1, m2, n, c) == {i \in DOMAIN m1[n][c] : m1[n][c][i] # m2[n][c][i]}

\* no slot of memory (n, c) can store a pair of path pid
NoSlotFor(n, c, pid) ==
    ~\E i \in DOMAIN mem[n][c] :
        mem[n][c][i].epr.name = 0 /\ (pid = 0 \/ mem[n][c][i].pid = pid)

\* the step sends no message, no qubit and emits no QubitEntangledEvent,
\* and changes no memory slot
SilentStep ==
    /\ obs'.out = <<>>
    /\ mem' = mem /\ usage' = usage
    /\ queue' = Tail(queue)

(***************************************************************************)
(* C11: a half pair received by a link layer that is allowed to run gets   *)
(* exactly one reply to its sender: epr_failed, with no slot changed and   *)
(* no QubitEntangledEvent, when the photon was lost or no slot of the path *)
(* is empty; otherwise epr_succeeded, with the pair stored in one slot of  *)
(* the path, that slot ENTANGLED, and exactly one QubitEntangledEvent      *)
(* scheduled at now + the delay of the classical channel.                  *)
(***************************************************************************)
C11_Post ==
    LET ev == obs'.ev
        n == ev.node
        c == ev.ch
        replies == Calls(obs'.out, "csend")
        notes == Calls(obs'.out, "notify")
    IN
    /\ Len(replies) = 1
    /\ replies[1].to = ev.frm /\ replies[1].name = ev.epr.name
    /\ Calls(obs'.out, "qsend") = <<>>
    /\ IF obs'.lost \/ NoSlotFor(n, c, ev.epr.path_id)
         THEN /\ replies[1].cmd = "epr_failed"
              /\ mem' = mem /\ usage' = usage
              /\ notes = <<>>
              /\ Cardinality(EventsOf(queue', "entangled", n))
                   = Cardinality(EventsOf(Tail(queue), "entangled", n))
         ELSE /\ replies[1].cmd = "epr_succeeded"
              /\ \E a \in DOMAIN mem[n][c] :
                    /\ mem[n][c][a].epr.name = 0
                    /\ mem'[n][c][a].epr.name = ev.epr.name
                    /\ mem'[n][c][a].pid = ev.epr.path_id
                    /\ mem'[n][c][a].st = "ENTANGLED"
                    /\ Changed(mem, mem', n, c) = {a}
                    /\ Len(notes) = 1
                    /\ notes[1].node = n /\ notes[1].addr = a
                    /\ notes[1].ch = c
                    /\ notes[1].t = now' + cfg.dc[c]
              /\ \A k \in NodeChans(cfg, n) \ {c} : mem'[n][k] = mem[n][k]
              /\ now' + cfg.dc[c] <= cfg.end =>
                    Cardinality(EventsOf(queue', "entangled", n))
                      = Cardinality(EventsOf(Tail(queue), "entangled", n)) + 1

C11_HeraldReply ==
    [][(obs'.ev.kind = "recv_qubit" /\ LLLive(obs'.ev.node)) => C11_Post]_vars

\* a half pair that was not lost is refused because the memory is full
C11_Witness ==
    /\ obs.ev.kind = "recv_qubit" /\ ~obs.lost
    /\ Len(Calls(obs.out, "csend")) = 1
    /\ Calls(obs.out, "csend")[1].cmd = "epr_failed"

(***************************************************************************)
(* C12 as stated: for an ack received on a channel that is still active,   *)
(* epr_succeeded moves the slot holding the named pair to ENTANGLED and    *)
(* emits one QubitEntangledEvent at the current time; epr_failed frees the *)
(* slot and at once starts a new attempt on the same slot address, with a  *)
(* new pair written to that address and sent to the same neighbour.        *)
(***************************************************************************)
\* the ack handled by the step names a pair stored at its receiver, whose
\* channel to the sender of the ack is active
AckOnActive ==
    /\ obs'.ev.kind = "ll_signal"
    /\ ChanTo(obs'.ev.node, obs'.ev.frm) \in active[obs'.ev.node]
    /\ MemSearch(World, obs'.ev.node, ChanTo(obs'.ev.node, obs'.ev.frm),
                 obs'.ev.msg.epr) # 0

C12_Post ==
    LET ev == obs'.ev
        n == ev.node
        c == ChanTo(n, ev.frm)
        a == MemSearch(World, n, c, ev.msg.epr)
        notes == Calls(obs'.out, "notify")
        sends == Calls(obs'.out, "qsend")
    IN
    /\ Calls(obs'.out, "csend") = <<>>
    /\ IF ev.msg.cmd = "epr_succeeded"
         THEN /\ mem'[n][c][a] = [mem[n][c][a] EXCEPT !.st = "ENTANGLED"]
              /\ Changed(mem, mem', n, c) \subseteq {a}
              /\ Len(notes) = 1
              /\ notes[1].node = n /\ notes[1].ch = c /\ notes[1].addr = a
              /\ notes[1].t = now'
              /\ Cardinality(EventsOf(queue', "entangled", n))
                   = Cardinality(EventsOf(Tail(queue), "entangled", n)) + 1
              /\ sends = <<>>
         ELSE /\ notes = <<>>
              /\ Len(sends) = 1
              /\ sends[1].node = n /\ sends[1].to = ev.frm
              /\ sends[1].ch = c /\ sends[1].addr = a
              /\ mem'[n][c][a].epr.name = sends[1].name
              /\ sends[1].name \notin {0, ev.msg.epr}
              /\ Changed(mem, mem', n, c) = {a}
              /\ usage'[n][c] = usage[n][c]

C12_AckOnActive ==
    [][AckOnActive => C12_Post]_vars

(***************************************************************************)
(* C12 amended: the same for an ack received while the link layer is       *)
(* allowed to run, that is in ASYNC, in LSYNC, or in SYNC during the       *)
(* EXTERNAL phase.                                                         *)
(***************************************************************************)
C12_AckOnActiveLive ==
    [][(AckOnActive /\ LLLive(obs'.ev.node)) => C12_Post]_vars

\* a failed attempt was retried on its slot under a timing mode
C12_Witness ==
    /\ obs.ev.kind = "ll_signal" /\ obs.ev.msg.cmd = "epr_failed"
    /\ cfg.mode # "ASYNC"
    /\ Len(Calls(obs.out, "qsend")) = 1
    /\ Calls(obs.out, "qsend")[1].addr # 0

(***************************************************************************)
(* C13: after a channel has been deactivated, every ack that arrives for   *)
(* an attempt made on it is handled by discarding the pair: the handler    *)
(* returns without an error, the named pair is in no slot afterwards, no   *)
(* QubitEntangledEvent is emitted and no attempt is started; and no later  *)
(* decoherence, release or scheduled-attempt event on the channel sends a  *)
(* qubit.                                                                  *)
(***************************************************************************)
\* the step handles an ack at a node whose channel to the sender is not
\* active
AckOnInactive ==
    /\ obs'.ev.kind = "ll_signal"
    /\ ChanTo(obs'.ev.node, obs'.ev.frm) \notin active[obs'.ev.node]
    /\ LLLive(obs'.ev.node)

C13_AckPost ==
    LET ev == obs'.ev
        n == ev.node
        c == ChanTo(n, ev.frm)
    IN  /\ ~fatal'
        /\ \A i \in DOMAIN mem'[n][c] : mem'[n][c][i].epr.name # ev.msg.epr
        /\ obs'.out = <<>>
        /\ usage'[n][c] = Cardinality({i \in DOMAIN mem'[n][c] :
                                         mem'[n][c][i].epr.name # 0})

\* the step handles a decoherence, release or scheduled-attempt event of a
\* channel that is not active at the node
RetryOnInactive ==
    /\ obs'.ev.kind \in {"decohered", "released", "generate"}
    /\ obs'.ev.ch \notin active[obs'.ev.node]

C13_DeactivatedDiscards ==
    [][ /\ AckOnInactive => C13_AckPost
        /\ RetryOnInactive => Calls(obs'.out, "qsend") = <<>> ]_vars

\* the part of C13 that the code keeps: an ack for a pair that is still
\* stored frees its slot, and nothing is sent on a deactivated channel
C13_StoredPairDiscarded ==
    [][ /\ (AckOnInactive /\ MemSearch(World, obs'.ev.node,
                                 ChanTo(obs'.ev.node, obs'.ev.frm),
                                 obs'.ev.msg.epr) # 0) => C13_AckPost
        /\ RetryOnInactive => Calls(obs'.out, "qsend") = <<>> ]_vars

\* an ack has freed the slot of its pair on a deactivated channel
C13_StoredWitness ==
    /\ obs.ev.kind = "ll_signal" /\ ~fatal
    /\ ChanTo(obs.ev.node, obs.ev.frm) \notin active[obs.ev.node]
    /\ obs.ev.msg.cmd = "epr_succeeded"

(***************************************************************************)
(* C14: in ASYNC an ADD for a channel that is not active records it in     *)
(* active_channels and schedules exactly capacity attempts, the i-th at    *)
(* now + i/attempt_rate for i = 0 .. capacity-1; an ADD for a channel that *)
(* is already active schedules nothing and leaves active_channels as they  *)
(* are.                                                                    *)
(***************************************************************************)
\* the scheduled attempts of node n on channel c at time t in a pool
AttemptsAt(q, n, c, t) ==
    {i \in DOMAIN q : q[i].kind = "generate" /\ q[i].node = n
                                              /\ q[i].ch = c /\ q[i].t = t}

AddStep ==
    obs'.ev.kind = "manage" /\ obs'.ev.add /\ cfg.mode = "ASYNC"

C14_Post ==
    LET n == obs'.ev.node
        c == ChanTo(n, obs'.ev.frm)
        cap == Len(mem[n][c])
    IN
    /\ mem' = mem /\ obs'.out = <<>> /\ ~fatal'
    /\ IF c \notin active[n]
         THEN /\ active' = [active EXCEPT ![n] = @ \cup {c}]
              /\ Len(queue') = Len(Tail(queue)) + cap
              /\ \A t \in 0..cfg.end :
                    Cardinality(AttemptsAt(queue', n, c, t))
                      = Cardinality(AttemptsAt(Tail(queue), n, c, t))
                        + (IF t >= now' /\ t < now' + cap * Eps THEN 1 ELSE 0)
         ELSE /\ active' = active
              /\ queue' = Tail(queue)

C14_AddSchedulesWave ==
    [][AddStep => C14_Post]_vars

\* an ADD was handled for a channel of two slots that was already active
C14_Witness ==
    /\ obs.ev.kind = "manage" /\ obs.ev.add /\ cfg.mode = "ASYNC"
    /\ obs.ev.t > 0
    /\ ChanTo(obs.ev.node, obs.ev.frm) \in active[obs.ev.node]
    /\ obs.waves[obs.ev.node] = 1
    /\ Len(mem[obs.ev.node][ChanTo(obs.ev.node, obs.ev.frm)]) = 2

(***************************************************************************)
(* C15: in LSYNC an ADD sends no qubit and schedules no attempt: the       *)
(* channel is queued, and a node makes no attempt before a wave has been   *)
(* started for it by an EXTERNAL_START signal; in SYNC an ADD schedules    *)
(* nothing either, and a qubit is only sent by a link layer that is in the *)
(* EXTERNAL phase.                                                         *)
(***************************************************************************)
C15_AddPost ==
    LET n == obs'.ev.node
        c == ChanTo(n, obs'.ev.frm)
    IN  /\ obs'.out = <<>> /\ mem' = mem
        /\ queue' = Tail(queue)
        /\ obs'.attempts = obs.attempts
        /\ (cfg.mode = "LSYNC" /\ c \notin active[n]) =>
              (c \in waitingCh'[n] /\ c \in active'[n])

C15_WaitsForSignal ==
    [][ /\ (obs'.ev.kind = "manage" /\ obs'.ev.add /\ cfg.mode # "ASYNC")
            => C15_AddPost
        /\ (cfg.mode # "ASYNC" /\ obs'.waves # obs.waves)
            => (obs'.ev.kind = "sync"
                /\ obs'.ev.msg.cmd \in {"EXTERNAL_START", "EXTERNAL"})
        /\ cfg.mode # "ASYNC" =>
              \A n \in PathNodes :
                  obs'.waves[n] = 0 => obs'.attempts[n] = 0
        /\ cfg.mode = "SYNC" =>
              \A i \in DOMAIN Calls(obs'.out, "qsend") :
                  /\ llPhase[Calls(obs'.out, "qsend")[i].node] = "EXTERNAL"
                  /\ llPhase'[Calls(obs'.out, "qsend")[i].node] = "EXTERNAL"
      ]_vars

\* the first attempt of a channel activated at time 0 in LSYNC is made
\* after the second EXTERNAL_START signal
C15_Witness ==
    /\ cfg.mode = "LSYNC"
    /\ obs.ev.kind = "generate" /\ obs.ev.node = 1
    /\ obs.attempts[1] = 1
    /\ now = cfg.t_slot
    /\ Len(Calls(obs.out, "qsend")) = 1

(***************************************************************************)
(* C16: in LSYNC the handling of an EXTERNAL_START signal clears every     *)
(* memory of every node, starts one wave of attempts for every active      *)
(* channel, and leaves waiting_qubits and waiting_channels empty.          *)
(***************************************************************************)
ExternalStartStep ==
    cfg.mode = "LSYNC" /\ obs'.ev.kind = "sync"
                       /\ obs'.ev.msg.cmd = "EXTERNAL_START"

\* every memory is cleared and every active channel gets one wave
ClearAndWave ==
    /\ \A nc \in Memories :
          /\ usage'[nc[1]][nc[2]] = 0
          /\ \A i \in DOMAIN mem'[nc[1]][nc[2]] :
                mem'[nc[1]][nc[2]][i].epr = NoEpr
    /\ \A n \in PathNodes :
          /\ obs'.waves[n] = obs.waves[n] + Cardinality(active[n])
          /\ \A c \in active[n] : \A t \in 0..cfg.end :
                Cardinality(AttemptsAt(queue', n, c, t))
                  = Cardinality(AttemptsAt(Tail(queue), n, c, t))
                    + (IF t >= now' /\ t < now' + Len(mem[n][c]) * Eps
                         THEN 1 ELSE 0)

C16_QueuesFlushed ==
    \A n \in PathNodes : waitingQ'[n] = {} /\ waitingCh'[n] = {}

C16_ExternalStartFlushes ==
    [][ExternalStartStep => (ClearAndWave /\ C16_QueuesFlushed)]_vars

\* the part of C16 that the code keeps: memories cleared, one wave for
\* every active channel
C16_ExternalStartRestarts ==
    [][ExternalStartStep => ClearAndWave]_vars

\* an EXTERNAL_START signal has cleared a memory that held a pair and
\* left a released slot in waiting_qubits
C16_RestartWitness ==
    /\ cfg.mode = "LSYNC" /\ obs.ev.kind = "sync" /\ now = 2 * cfg.t_slot
    /\ \E n \in PathNodes : waitingQ[n] # {}
    /\ e2e[1] > 0

(***************************************************************************)
(* C17: in SYNC, while the phase of the link layer of a node is not        *)
(* EXTERNAL, a scheduled attempt, a received half pair and a received ack  *)
(* change no memory slot, send no qubit and no classical message and emit  *)
(* no QubitEntangledEvent; and the handling of an EXTERNAL signal clears   *)
(* all memories and starts a wave on every active channel.                 *)
(***************************************************************************)
\* the step gives an attempt, a half pair or an ack to a link layer whose
\* phase is not EXTERNAL
SilencedStep ==
    /\ cfg.mode = "SYNC"
    /\ obs'.ev.kind \in {"generate", "recv_qubit", "ll_signal"}
    /\ llPhase[obs'.ev.node] # "EXTERNAL"

C17_SilentOutsideExternal ==
    [][ /\ SilencedStep => (SilentStep /\ ~fatal')
        /\ (cfg.mode = "SYNC" /\ obs'.ev.kind = "sync"
                              /\ obs'.ev.msg.cmd = "EXTERNAL")
             => (ClearAndWave /\ \A n \in PathNodes : llPhase'[n] = "EXTERNAL")
      ]_vars

\* an ack for a stored pair was dropped by a link layer in the INTERNAL
\* phase
C17_Witness ==
    /\ cfg.mode = "SYNC" /\ obs.ev.kind = "ll_signal"
    /\ llPhase[obs.ev.node] = "INTERNAL"
    /\ MemSearch(World, obs.ev.node, ChanTo(obs.ev.node, obs.ev.frm),
                 obs.ev.msg.epr) # 0

(***************************************************************************)
(* C18: on a QubitReleasedEvent for a slot of a memory whose channel is in *)
(* active_channels of the node, in ASYNC a new attempt is started at once  *)
(* on the same slot address, in LSYNC no attempt is started and the slot   *)
(* is put in waiting_qubits; a node that does not initiate the channel     *)
(* starts no attempt.                                                      *)
(***************************************************************************)
\* the step makes exactly one attempt, on slot a of memory (n, c)
OneAttemptOn(n, c, a) ==
    LET sends == Calls(obs'.out, "qsend") IN
    /\ Len(sends) = 1 /\ Len(obs'.out) = 1
    /\ sends[1].node = n /\ sends[1].ch = c /\ sends[1].addr = a
    /\ sends[1].to = OtherEnd(n, c)
    /\ sends[1].name # 0
    /\ mem'[n][c][a].epr.name = sends[1].name
    /\ mem[n][c][a].epr.name = 0
    /\ Changed(mem, mem', n, c) = {a}
    /\ obs'.attempts[n] = obs.attempts[n] + 1

C18_Post(ifEmpty) ==
    LET n == obs'.ev.node
        c == obs'.ev.ch
        a == obs'.ev.addr
    IN  IF c \in active[n]
          THEN /\ (cfg.mode = "ASYNC"
                     /\ (ifEmpty => mem[n][c][a].epr.name = 0))
                     => OneAttemptOn(n, c, a)
               /\ cfg.mode = "LSYNC" =>
                     /\ obs'.out = <<>> /\ mem' = mem
                     /\ obs'.attempts = obs.attempts
                     /\ <<c, a>> \in waitingQ'[n]
          ELSE /\ obs'.out = <<>> /\ mem' = mem
               /\ obs'.attempts = obs.attempts
               /\ waitingQ' = waitingQ

C18_ReleaseRetries ==
    [][obs'.ev.kind = "released" => C18_Post(FALSE)]_vars

\* the part of C18 that the code keeps: the new attempt is made when the
\* released slot is still empty
C18_ReleaseRetriesEmptySlot ==
    [][obs'.ev.kind = "released" => C18_Post(TRUE)]_vars

\* in ASYNC the slot released by a swap at an intermediate node that
\* initiates the channel was used for a new attempt
C18_RetryWitness ==
    /\ cfg.mode = "ASYNC" /\ obs.ev.kind = "released"
    /\ obs.ev.node \in Interior
    /\ obs.ev.ch \in active[obs.ev.node]
    /\ Len(Calls(obs.out, "qsend")) = 1
    /\ Calls(obs.out, "qsend")[1].addr = obs.ev.addr

(***************************************************************************)
(* C19 as stated: on a QubitDecoheredEvent for a slot of a memory whose    *)
(* channel the node initiates, the link layer makes a new attempt on the   *)
(* same slot address, in every timing mode; a node that does not initiate  *)
(* the channel makes no attempt.                                           *)
(***************************************************************************)
C19_Post(whenLive) ==
    LET n == obs'.ev.node
        c == obs'.ev.ch
        a == obs'.ev.addr
    IN  IF c \in active[n]
          THEN IF whenLive /\ ~LLLive(n)
                 THEN SilentStep
                 ELSE OneAttemptOn(n, c, a)
          ELSE /\ obs'.out = <<>> /\ mem' = mem
               /\ obs'.attempts = obs.attempts

C19_DecoherenceRetries ==
    [][obs'.ev.kind = "decohered" => C19_Post(FALSE)]_vars

(***************************************************************************)
(* C19 amended: the new attempt on the same slot address is made in ASYNC, *)
(* in LSYNC, and in SYNC while the link layer is in the EXTERNAL phase; in *)
(* SYNC outside the EXTERNAL phase no attempt is made and nothing changes. *)
(* A node that does not initiate the channel makes no attempt.             *)
(***************************************************************************)
C19_DecoherenceRetriesWhenLive ==
    [][obs'.ev.kind = "decohered" => C19_Post(TRUE)]_vars

\* under a timing mode, a slot that decohered was used for a new attempt
C19_Witness ==
    /\ cfg.mode # "ASYNC" /\ obs.ev.kind = "decohered"
    /\ obs.ev.ch \in active[obs.ev.node]
    /\ Len(Calls(obs.out, "qsend")) = 1
    /\ Calls(obs.out, "qsend")[1].addr = obs.ev.addr

(***************************************************************************)
(* C20: when a qubit becomes ELIGIBLE at the first or last node of its     *)
(* path, the node reads the pair out and releases the slot, adds one to    *)
(* its e2e_count and emits one QubitReleasedEvent whose e2e flag is true   *)
(* if and only if the node is the first node of path_vector.               *)
(***************************************************************************)
\* the step is the handling of an event in which its node consumes a pair
ConsumeStep ==
    /\ obs'.ev.kind \in {"entangled", "pf_signal"}
    /\ e2e'[obs'.ev.node] # e2e[obs'.ev.node]

C20_Post(flagOf(_)) ==
    LET n == obs'.ev.node IN
    /\ n \in {1, cfg.n}
    /\ e2e' = [e2e EXCEPT ![n] = @ + 1]
    /\ Cardinality(EventsOf(queue', "released", n))
         = Cardinality(EventsOf(Tail(queue), "released", n)) + 1
    /\ \E c \in NodeChans(cfg, n) : \E a \in DOMAIN mem[n][c] :
          /\ mem'[n][c][a].epr = NoEpr
          /\ mem'[n][c][a].st = "RELEASE"
          /\ usage'[n][c] = usage[n][c] - 1
          /\ \E i \in DOMAIN queue' :
                queue'[i] = [Ev(now', "released", n) EXCEPT
                               !.ch = c, !.addr = a, !.e2e = flagOf(n)]

IsSource(n) == RouteIndex(Route(cfg), n) = 1
IsNamedS(n) == cfg.names[n] = "S"

C20_EndNodeConsumes ==
    [][ConsumeStep => C20_Post(IsSource)]_vars

\* the part of C20 that the code keeps, with the flag the code computes:
\* the node is called S
C20_EndNodeConsumesNamedS ==
    [][ConsumeStep => C20_Post(IsNamedS)]_vars

\* the last node of a path, called S, has consumed a pair
C20_NamedWitness ==
    /\ obs.ev.kind = "pf_signal" /\ obs.ev.node = cfg.n
    /\ cfg.names[cfg.n] = "S"
    /\ e2e[cfg.n] > 0
    /\ obs.last = NoLast
    /\ \E i \in DOMAIN queue : queue[i].kind = "released" /\ queue[i].e2e

(***************************************************************************)
(* C21: a heralding ack (epr_succeeded or epr_failed) that reaches the     *)
(* initiator for a pair that is no longer stored in its memory (the slot   *)
(* decohered, was cleared at a phase boundary, or was reused by a retry)   *)
(* is handled without an error: the handler returns, no slot changes, no   *)
(* call is made, and the run goes on.                                      *)
(***************************************************************************)
\* the step handles an ack, at a node whose link layer is allowed to run,
\* that names a pair stored in no slot of the memory of the channel
StaleAck ==
    /\ obs'.ev.kind = "ll_signal"
    /\ LLLive(obs'.ev.node)
    /\ MemSearch(World, obs'.ev.node, ChanTo(obs'.ev.node, obs'.ev.frm),
                 obs'.ev.msg.epr) = 0

C21_StaleAckHandled ==
    [][StaleAck => (~fatal' /\ mem' = mem /\ obs'.out = <<>>)]_vars

(***************************************************************************)
(* C22: in SYNC mode a SWAP_UPDATE delivered to a forwarder whose phase is *)
(* not INTERNAL is dropped: no slot, no FIB entry and no                   *)
(* parallel_swappings record changes, no message is sent, and no error is  *)
(* raised.                                                                 *)
(***************************************************************************)
\* the step delivers a SWAP_UPDATE to a forwarder outside its INTERNAL phase
UpdateOutsideInternal ==
    /\ cfg.mode = "SYNC"
    /\ obs'.ev.kind = "pf_signal"
    /\ pfPhase[obs'.ev.node] # "INTERNAL"

\* the step changes nothing that the forwarder keeps and sends nothing
C22_Dropped ==
    /\ SilentStep
    /\ fib' = fib /\ par' = par /\ e2e' = e2e /\ pfWaiting' = pfWaiting

C22_UpdateDroppedQuietly ==
    [][UpdateOutsideInternal => (C22_Dropped /\ ~fatal')]_vars

\* the part of C22 that the code keeps: nothing changes and nothing is sent
C22_UpdateDropped ==
    [][UpdateOutsideInternal => C22_Dropped]_vars

\* a SWAP_UPDATE has reached a forwarder in the EXTERNAL phase
C22_Reached ==
    /\ cfg.mode = "SYNC" /\ obs.ev.kind = "pf_signal"
    /\ pfPhase[obs.ev.node] = "EXTERNAL"

(***************************************************************************)
(* C23: on a path install with mux "B" and an allocation vector m_v that   *)
(* assigns n > 0 qubits to a channel of the node, the install raises       *)
(* exactly when n exceeds the number of free slots of the memory of that   *)
(* channel, and otherwise reserves exactly n slots of that memory for the  *)
(* path_id.                                                                *)
(***************************************************************************)
\* the step handles an install message that carries an allocation vector
InstallWithVector ==
    obs'.ev.kind = "control" /\ obs'.ev.m_v # <<>>

\* the slots of the memory of channel c at node n reserved for path pid
ReservedFor(m, n, c, pid) == {i \in DOMAIN m[n][c] : m[n][c][i].pid = pid}

\* the channels of the node to which the vector of the install message
\* assigns at least one qubit
Assigned(ev) == {c \in NodeChans(cfg, ev.node) : ev.m_v[c] > 0}

C23_Post(tooMany(_, _)) ==
    LET ev == obs'.ev
        n == ev.node
        over == \E c \in Assigned(ev) : tooMany(ev.m_v[c], Free(World, n, c))
    IN  /\ fatal' = over
        /\ ~over => \A c \in Assigned(ev) :
               Cardinality(ReservedFor(mem', n, c, ev.path_id))
                 = Cardinality(ReservedFor(mem, n, c, ev.path_id)) + ev.m_v[c]

Exceeds(num, free) == num > free

C23_InstallReservesOrRaises ==
    [][InstallWithVector => C23_Post(Exceeds)]_vars

\* the part of C23 that the code keeps: a vector that assigns to each
\* channel exactly the number of its free slots is installed without an
\* error and reserves that number of slots
C23_ExactFitReserves ==
    [][(InstallWithVector
          /\ \A c \in Assigned(obs'.ev) :
                obs'.ev.m_v[c] = Free(World, obs'.ev.node, c))
         => C23_Post(Exceeds)]_vars

\* an interior node has reserved all slots of both its memories from a
\* vector
C23_FitWitness ==
    /\ obs.ev.kind = "control" /\ obs.ev.m_v = <<2, 1>> /\ obs.ev.node = 2
    /\ ~fatal
    /\ Cardinality(ReservedFor(mem, 2, 1, 1)) = 2
    /\ Cardinality(ReservedFor(mem, 2, 2, 1)) = 1

(***************************************************************************)
(* C24: a slot holds at most one pair.  A write that selects a reserved    *)
(* slot by (path_id, key) returns the address of that slot and stores the  *)
(* pair when the slot is empty; while the slot holds a pair the same write *)
(* returns none and leaves the stored pair as it is.  A destructive read   *)
(* of a slot that holds a pair returns the pair, empties the slot and      *)
(* lowers usage by one; a read of an empty slot returns none.  So a slot   *)
(* is written again only after it was emptied.                             *)
(***************************************************************************)
\* what the call of the driver returned
Ret == obs'.out[Len(obs'.out)]

\* the driver writes with the path id and the key of a slot reserved for
\* that path
WriteReserved ==
    /\ obs'.ev.kind = "write_key"
    /\ mem[1][1][obs'.ev.addr].pid = obs'.ev.path_id

C24_WritePost ==
    LET a == obs'.ev.addr IN
    IF mem[1][1][a].epr.name = 0
      THEN /\ Ret.addr = a /\ Ret.name # 0
           /\ mem'[1][1][a].epr.name = Ret.name
           /\ mem'[1][1][a].pid = mem[1][1][a].pid
           /\ Changed(mem, mem', 1, 1) = {a}
           /\ usage'[1][1] = usage[1][1] + 1
      ELSE /\ Ret.addr = 0 /\ Ret.name = 0
           /\ mem' = mem /\ usage' = usage /\ queue' = queue

C24_ReadPost ==
    LET a == obs'.ev.addr IN
    IF mem[1][1][a].epr.name # 0
      THEN /\ Ret.addr = a /\ Ret.name = mem[1][1][a].epr.name
           /\ mem'[1][1][a].epr = NoEpr
           /\ Changed(mem, mem', 1, 1) = {a}
           /\ usage'[1][1] = usage[1][1] - 1
      ELSE /\ Ret.addr = 0 /\ Ret.name = 0
           /\ mem' = mem /\ usage' = usage

C24_OnePairPerSlot ==
    [][ /\ WriteReserved => C24_WritePost
        /\ obs'.ev.kind = "read" => C24_ReadPost ]_vars

\* a reserved slot was written by (path_id, key), a second write to it
\* was refused, and the pair has then been read out: the slot is empty
\* and can be written again
C24_Witness ==
    /\ cfg.name = "memtest"
    /\ obs.ev.kind = "read"
    /\ obs.cycle = <<obs.ev.addr, 3>>
    /\ obs.out[Len(obs.out)].addr = obs.ev.addr
    /\ mem[1][1][obs.ev.addr].epr = NoEpr
    /\ mem[1][1][obs.ev.addr].pid # 0
    /\ usage[1][1] = 0

(***************************************************************************)
(* C25: when the decoherence timer of a pair fires, the pair is removed    *)
(* from its slot (a search by its name finds nothing) and one              *)
(* QubitDecoheredEvent is emitted for the slot if and only if the slot     *)
(* still holds that pair; a timer whose pair was read out, renamed by      *)
(* update or replaced by the pair of a new attempt has no effect.          *)
(***************************************************************************)
\* the step handles the decoherence timer of the pair obs'.ev.epr
TimerStep == obs'.ev.kind = "decohere"

C25_Post ==
    LET ev == obs'.ev
        n == ev.node
        c == ev.ch
        a == ev.addr
    IN  IF mem[n][c][a].epr.name = ev.epr.name
          THEN /\ now' = mem[n][c][a].epr.dt
               /\ MemSearch([mem |-> mem'], n, c, ev.epr.name) = 0
               /\ mem'[n][c][a].epr = NoEpr
               /\ Changed(mem, mem', n, c) = {a}
               /\ usage'[n][c] = usage[n][c] - 1
               /\ Cardinality(EventsOf(queue', "decohered", n))
                    = Cardinality(EventsOf(Tail(queue), "decohered", n)) + 1
               /\ \E i \in EventsOf(queue', "decohered", n) :
                     /\ queue'[i].ch = c /\ queue'[i].addr = a
                     /\ queue'[i].t = now'
          ELSE /\ mem' = mem /\ usage' = usage
               /\ queue' = Tail(queue)

C25_TimerFiresOnSamePair ==
    [][TimerStep => C25_Post]_vars

\* the timer of an elementary pair has fired on a slot that holds the
\* swapped pair written by update, and has left it in the slot
C25_Witness ==
    LET ev == obs.ev IN
    /\ ev.kind = "decohere"
    /\ mem[ev.node][ev.ch][ev.addr].epr.name \notin {0, ev.epr.name}
    /\ mem[ev.node][ev.ch][ev.addr].epr.orig
    /\ mem[ev.node][ev.ch][ev.addr].epr.dt = now

(***************************************************************************)
(* Link architectures (qns/entity/qchannel/link_arch.py): the delays of    *)
(* the k-th attempt, <<EPR creation, notification of the primary node,    *)
(* notification of the secondary node>>.  Durations are integers (a number *)
(* of time units).                                                         *)
(***************************************************************************)
MaxK == 3           \* attempts per call sequence
MaxReset == 6       \* reset_time
MaxTau == 2         \* tau_l and tau_0

Max(a, b) == IF a >= b THEN a ELSE b

\* LinkArchDimBk.delays
LinkArchDimBkDelays(k, reset_time, tau_l, tau_0) ==
    LET attempt_duration == Max(2 * (tau_l + tau_0), reset_time) IN
    <<k * attempt_duration - 2 * tau_l - tau_0, 2 * tau_l + tau_0,
      2 * tau_l + tau_0>>

\* LinkArchDimBkSeq.delays
LinkArchDimBkSeqDelays(k, reset_time, tau_l, tau_0) ==
    LET attempt_duration == Max(5 * (tau_l + tau_0), reset_time) IN
    <<(k - 1) * attempt_duration + tau_l + 4 * tau_0, 4 * tau_l + tau_0,
      4 * tau_l + tau_0>>

\* LinkArchSr.delays
LinkArchSrDelays(k, reset_time, tau_l, tau_0) ==
    LET attempt_duration == Max(2 * (tau_l + tau_0), reset_time) IN
    <<k * attempt_duration - 2 * tau_l, tau_l, 2 * tau_l>>

\* a Source-in-Midpoint architecture whose attempt lasts a round trip
LinkArchSimDelaysRoundTrip(k, reset_time, tau_l, tau_0) ==
    LET attempt_duration == Max(2 * (tau_l + tau_0), reset_time) IN
    <<k * attempt_duration - tau_l, tau_l, tau_l>>

\* LinkArchSim.delays
LinkArchSimDelays(k, reset_time, tau_l, tau_0) ==
    LET attempt_duration == Max(tau_l + tau_0, reset_time) IN
    <<k * attempt_duration - tau_l, tau_l, tau_l>>

LinkArchs == {"DIM-BK", "DIM-BK-SeQUeNCe", "SR", "SIM"}

\* link_arch.delays(k, reset_time=, tau_l=, tau_0=) of the architecture
\* named arch
Delays(arch, k, reset_time, tau_l, tau_0) ==
    CASE arch = "DIM-BK" -> LinkArchDimBkDelays(k, reset_time, tau_l, tau_0)
      [] arch = "DIM-BK-SeQUeNCe" ->
            LinkArchDimBkSeqDelays(k, reset_time, tau_l, tau_0)
      [] arch = "SR" -> LinkArchSrDelays(k, reset_time, tau_l, tau_0)
      [] arch = "SIM" -> LinkArchSimDelays(k, reset_time, tau_l, tau_0)

\* an architecture and its parameters are chosen; no call is made yet
InitArch ==
    /\ InitNet(MemTest)
    /\ fib = [n \in Nodes |-> EmptyFib]
    /\ fibLast = [p \in PathIds |-> NoEntry]
    /\ fibPrev = EmptyFib
    /\ fibCall = [op |-> "none", path_id |-> 0, absent |-> TRUE]
    /\ \E arch \in LinkArchs, reset_time \in 0..MaxReset,
          tau_l \in 0..MaxTau, tau_0 \in 0..MaxTau :
         calc = [op |-> "delays", arch |-> arch, reset_time |-> reset_time,
                 tau_l |-> tau_l, tau_0 |-> tau_0, k |-> 0,
                 prev |-> <<0, 0, 0>>, out |-> <<0, 0, 0>>]

\* delays is called for the next attempt, as check_link_arch does for
\* attempts 1 and 6
CallDelays ==
    /\ calc.k < MaxK
    /\ calc' = [calc EXCEPT !.k = @ + 1, !.prev = calc.out,
                            !.out = Delays(calc.arch, calc.k + 1,
                                           calc.reset_time, calc.tau_l,
                                           calc.tau_0)]
    /\ UNCHANGED <<cfg, now, queue, mem, usage, nextId, fatal, active,
                   waitingCh, waitingQ, llPhase, pfPhase, pfWaiting, par,
                   e2e, obs, fib, fibvars>>

NextArch == CallDelays

SpecArch == InitArch /\ [][NextArch]_vars

(***************************************************************************)
(* C26: for each link architecture and all k >= 1, with non-negative       *)
(* integer reset_time, tau_l and tau_0, the EPR creation delay of attempt  *)
(* k+1 exceeds that of attempt k by the attempt duration of the            *)
(* architecture, max(c * (tau_l + tau_0), reset_time) with c = 2 for SR    *)
(* and DIM-BK, 1 for SIM and 5 for DIM-BK-SeQUeNCe, and the two            *)
(* notification delays are the same for every k.                           *)
(***************************************************************************)
RoundTrips(arch) ==
    CASE arch \in {"SR", "DIM-BK"} -> 2
      [] arch = "SIM" -> 1
      [] arch = "DIM-BK-SeQUeNCe" -> 5

C26_CreationDelayLinear ==
    (calc.op = "delays" /\ calc.k >= 2) =>
        /\ calc.out[1] - calc.prev[1]
             = Max(RoundTrips(calc.arch) * (calc.tau_l + calc.tau_0),
                   calc.reset_time)
        /\ calc.out[2] = calc.prev[2]
        /\ calc.out[3] = calc.prev[3]

\* the third attempt of a DIM-BK-SeQUeNCe link whose reset time is longer
\* than five trips has been computed
C26_Witness ==
    /\ calc.op = "delays" /\ calc.k = 3
    /\ calc.arch = "DIM-BK-SeQUeNCe"
    /\ calc.tau_l = 1 /\ calc.tau_0 = 0 /\ calc.reset_time = 6
    /\ calc.out = <<13, 4, 4>>

(***************************************************************************)
(* Path generation (examples/path_gen.py), distance_proportion =           *)
(* "mid_bottleneck".  The code computes with Python floats (IEEE doubles): *)
(* 1.2 is the double 0x3FF3333333333333, every product, sum and quotient   *)
(* is rounded to the nearest double (ties to even), and int() truncates.   *)
(* A double close to a multiple of 1/5 is kept as                          *)
(*   v5   : five times the exact value it stands for,                      *)
(*   low  : its value counted in units of 2^-52, modulo 64,                *)
(*   err5 : five times (its value - the exact value), in units of 2^-52.   *)
(***************************************************************************)
MaxL == 66          \* end_to_end_distance
MaxRouters == 4     \* number_of_routers

RECURSIVE Log2(_)
Log2(x) == IF x < 2 THEN 0 ELSE 1 + Log2(x \div 2)

RECURSIVE Pow2(_)
Pow2(j) == IF j <= 0 THEN 1 ELSE 2 * Pow2(j - 1)

\* the result of an operation rounded to the nearest double: in the binade
\* [2^j, 2^(j+1)) doubles are 2^j units apart
FlRound(x) ==
    IF x.v5 = 0 THEN x
    ELSE LET G == Pow2(Log2(x.v5 \div 5))
             rem == x.low % G
             r == IF 2 * rem < G THEN 0 - rem
                  ELSE IF 2 * rem > G THEN G - rem
                  ELSE IF x.low % (2 * G) = rem THEN 0 - rem
                  ELSE G - rem
         IN  [v5 |-> x.v5, low |-> (x.low + r) % 64, err5 |-> x.err5 + 5 * r]

\* 1.2 * k for an int k >= 0: the double 1.2 is 5404319552844595 units,
\* which is 51 modulo 64 and 1/5 of a unit less than 6/5
MulOneTwo(k) ==
    IF k = 0 THEN [v5 |-> 0, low |-> 0, err5 |-> 0]
    ELSE FlRound([v5 |-> 6 * k, low |-> (51 * k) % 64, err5 |-> 0 - k])

\* x + i for a double x and an int i
AddInt(x, i) == FlRound([x EXCEPT !.v5 = @ + 5 * i])

\* int(L / D) for an int L >= 0 and a double D > 0: the floor of the exact
\* quotient, except that an integer quotient q is missed from below when
\* D is too large by more than half the distance between q and the double
\* before it
IntQuotient(L, D) ==
    IF L = 0 THEN 0
    ELSE IF (5 * L) % D.v5 # 0 THEN (5 * L) \div D.v5
    ELSE LET q == (5 * L) \div D.v5
             gap == IF q = Pow2(Log2(q)) THEN q ELSE Pow2(Log2(q) + 1)
         IN  IF D.err5 > 0 /\ 4 * q * D.err5 > gap * D.v5 THEN q - 1 ELSE q

\* int(b * 1.2) for an int b >= 0
IntTimesOneTwo(b) == (6 * b) \div 5

\* [x] * k
Repeat(x, k) == [i \in 1..k |-> x]

\* compute_distances_distribution(L, n, "mid_bottleneck")
ComputeDistancesDistribution(end_to_end_distance, number_of_routers) ==
    LET total_segments == number_of_routers + 1 IN
    IF number_of_routers = 0 THEN <<end_to_end_distance>>
    ELSE IF total_segments <= 2
      THEN Repeat(end_to_end_distance \div total_segments, total_segments)
    ELSE
      LET num_middle == IF total_segments % 2 = 0 THEN 2 ELSE 1
          num_edges == total_segments - num_middle
          base_edge_distance ==
              IntQuotient(end_to_end_distance,
                          AddInt(MulOneTwo(num_middle), num_edges))
          middle_distance == IntTimesOneTwo(base_edge_distance)
      IN  Repeat(base_edge_distance, num_edges \div 2)
            \o Repeat(middle_distance, num_middle)
            \o Repeat(base_edge_distance, num_edges \div 2)

\* compute_distances_distribution_abd(L, n, "mid_bottleneck")
ComputeDistancesDistributionAbd(end_to_end_distance, number_of_routers) ==
    LET total_segments == number_of_routers + 1 IN
    IF number_of_routers = 0 THEN <<end_to_end_distance>>
    ELSE
      LET even == total_segments % 2 = 0
          edge_segments == IF even THEN total_segments - 2
                           ELSE total_segments - 1
          base_edge_distance ==
              IntQuotient(end_to_end_distance,
                          AddInt(MulOneTwo(edge_segments),
                                 IF even THEN 2 ELSE 1))
          middle_distance == IntTimesOneTwo(base_edge_distance)
      IN  Repeat(base_edge_distance, edge_segments \div 2)
            \o (IF even THEN <<middle_distance, middle_distance>>
                        ELSE <<middle_distance>>)
            \o Repeat(base_edge_distance, edge_segments \div 2)

\* a total distance and a number of routers are chosen; no call is made yet
InitDist ==
    /\ InitNet(MemTest)
    /\ fib = [n \in Nodes |-> EmptyFib]
    /\ fibLast = [p \in PathIds |-> NoEntry]
    /\ fibPrev = EmptyFib
    /\ fibCall = [op |-> "none", path_id |-> 0, absent |-> TRUE]
    /\ \E L \in 0..MaxL, n \in 1..MaxRouters :
         calc = [op |-> "distances", L |-> L, n |-> n,
                 out |-> <<>>, abd |-> <<>>]

CallDistances ==
    /\ calc.op = "distances" /\ calc.out = <<>>
    /\ calc' = [calc EXCEPT !.out = ComputeDistancesDistribution(calc.L, calc.n)]
    /\ UNCHANGED <<cfg, now, queue, mem, usage, nextId, fatal, active,
                   waitingCh, waitingQ, llPhase, pfPhase, pfWaiting, par,
                   e2e, obs, fib, fibvars>>

CallDistancesAbd ==
    /\ calc.op = "distances" /\ calc.abd = <<>>
    /\ calc' = [calc EXCEPT
                   !.abd = ComputeDistancesDistributionAbd(calc.L, calc.n)]
    /\ UNCHANGED <<cfg, now, queue, mem, usage, nextId, fatal, active,
                   waitingCh, waitingQ, llPhase, pfPhase, pfWaiting, par,
                   e2e, obs, fib, fibvars>>

NextDist == CallDistances \/ CallDistancesAbd

SpecDist == InitDist /\ [][NextDist]_vars

(***************************************************************************)
(* C27: for every total distance L >= 0 and every number of routers        *)
(* n >= 1, compute_distances_distribution(L, n, "mid_bottleneck") returns  *)
(* n+1 segments, the middle one (the two middle ones when n+1 is even) of  *)
(* length floor(base * 1.2) and the others of length base, with            *)
(* base = floor(L / (1.2 * middle_count + edge_count)); and                *)
(* compute_distances_distribution_abd returns the same list.               *)
(***************************************************************************)
\* the list the statement describes
MidBottleneck(L, n) ==
    LET middle_count == IF (n + 1) % 2 = 0 THEN 2 ELSE 1
        edge_count == n + 1 - middle_count
        base == (5 * L) \div (6 * middle_count + 5 * edge_count)
        first == edge_count \div 2 + 1
    IN  [i \in 1..(n + 1) |->
            IF i >= first /\ i < first + middle_count
              THEN (6 * base) \div 5 ELSE base]

C27_MidBottleneckLists ==
    (calc.op = "distances" /\ calc.out # <<>> /\ calc.abd # <<>>) =>
        /\ calc.out = MidBottleneck(calc.L, calc.n)
        /\ calc.abd = calc.out

\* the part of C27 that the two functions keep: each returns n+1
\* segments, the same on both sides of the middle, with the middle
\* segments floor(1.2 * edge segment) long
C27_Shape ==
    calc.op = "distances" =>
        \A l \in {calc.out, calc.abd} :
            (l # <<>> /\ calc.n >= 2) =>
                /\ Len(l) = calc.n + 1
                /\ \A i \in 1..Len(l) : l[i] = l[Len(l) + 1 - i]
                /\ l[(Len(l) + 1) \div 2] = (6 * l[1]) \div 5

\* both functions were called for 66 km and 3 routers, where the quotient
\* 66 / 4.4 computed in doubles is just below 15
C27_Reached ==
    /\ calc.op = "distances" /\ calc.L = 66 /\ calc.n = 3
    /\ calc.out = <<14, 16, 16, 14>> /\ calc.abd = calc.out

(***************************************************************************)
(* C28: a QubitEntangledEvent in ASYNC or LSYNC, for a qubit bound to a    *)
(* path that has a FIB entry: when the rank of the partner is lower than   *)
(* the rank of the node the qubit stays ENTANGLED and nothing is sent,     *)
(* otherwise the qubit is moved to PURIF and then to ELIGIBLE by that      *)
(* handler.  In every run a qubit is moved to ELIGIBLE only right after    *)
(* it was moved to PURIF, and a qubit without a path_id is never moved     *)
(* out of ENTANGLED by the forwarder.                                      *)
(***************************************************************************)
\* the events that only the forwarder handles
ForwarderKinds == {"entangled", "pf_signal", "control"}

EntangledBound ==
    /\ ~fatal /\ queue # <<>>
    /\ obs'.ev = Head(queue)
    /\ obs'.ev.kind = "entangled"
    /\ cfg.mode \in {"ASYNC", "LSYNC"}
    /\ LET ev == Head(queue) IN
       /\ mem[ev.node][ev.ch][ev.addr].st = "ENTANGLED"
       /\ mem[ev.node][ev.ch][ev.addr].pid # 0
       /\ FibGet(fib[ev.node], mem[ev.node][ev.ch][ev.addr].pid) # NoEntry

C28_EntangledPost ==
    LET ev == Head(queue)
        n == ev.node
        c == ev.ch
        a == ev.addr
        entry == FibGet(fib[n], mem[n][c][a].pid)
    IN  IF RankOf(entry, ev.frm) < RankOf(entry, n)
          THEN /\ mem'[n][c][a] = mem[n][c][a]
               /\ obs'.out = <<>>
               /\ obs'.fsm = <<>>
          ELSE /\ Len(obs'.fsm) >= 2
               /\ obs'.fsm[1] = <<n, c, a, "PURIF">>
               /\ obs'.fsm[2] = <<n, c, a, "ELIGIBLE">>

\* every move to ELIGIBLE of a step follows a move to PURIF of the same slot
EligibleAfterPurif(log) ==
    \A i \in 1..Len(log) :
       log[i][4] = "ELIGIBLE" =>
          /\ i > 1
          /\ log[i - 1] = <<log[i][1], log[i][2], log[i][3], "PURIF">>

\* a slot that is ELIGIBLE after a step and was not before was moved there
BecameEligible(n, c, a) ==
    /\ a <= Len(mem[n][c]) /\ a <= Len(mem'[n][c])
    /\ mem'[n][c][a].st = "ELIGIBLE"
    /\ mem[n][c][a].st # "ELIGIBLE"

Slots == UNION {{<<n, c, a>> : a \in 1..Len(mem[n][c])} :
                   <<n, c>> \in Nodes \X Chans}

C28_RunPost ==
    /\ EligibleAfterPurif(obs'.fsm)
    /\ \A s \in Slots :
          BecameEligible(s[1], s[2], s[3]) =>
             \E i \in 1..Len(obs'.fsm) :
                obs'.fsm[i] = <<s[1], s[2], s[3], "ELIGIBLE">>
    /\ \A s \in Slots :
          (mem[s[1]][s[2]][s[3]].pid = 0
             /\ mem[s[1]][s[2]][s[3]].st = "ENTANGLED")
          => /\ \A i \in 1..Len(obs'.fsm) :
                   obs'.fsm[i] \notin {<<s[1], s[2], s[3], "PURIF">>,
                                       <<s[1], s[2], s[3], "ELIGIBLE">>}
             /\ obs'.ev.kind \in ForwarderKinds
                   => mem'[s[1]][s[2]][s[3]].st = "ENTANGLED"

C28_EntangledQubitLifecycle ==
    [][/\ (EntangledBound => C28_EntangledPost)
       /\ C28_RunPost]_vars

\* the state after a QubitEntangledEvent of slot (node, ch, addr)
AfterEntangled ==
    /\ ~fatal
    /\ obs.ev.kind = "entangled"
    /\ cfg.mode \in {"ASYNC", "LSYNC"}

\* a qubit whose partner has the same or a higher rank went through PURIF
\* and ELIGIBLE in the handler
C28_Witness ==
    /\ AfterEntangled
    /\ LET ev == obs.ev
           slot == mem[ev.node][ev.ch][ev.addr]
           entry == FibGet(fib[ev.node], slot.pid)
       IN  /\ slot.pid # 0 /\ entry # NoEntry
           /\ RankOf(entry, ev.frm) >= RankOf(entry, ev.node)
           /\ Len(obs.fsm) >= 2
           /\ obs.fsm[1] = <<ev.node, ev.ch, ev.addr, "PURIF">>
           /\ obs.fsm[2] = <<ev.node, ev.ch, ev.addr, "ELIGIBLE">>

\* a qubit whose partner has a lower rank is left ENTANGLED
C28_WaitReached ==
    /\ AfterEntangled
    /\ LET ev == obs.ev
           slot == mem[ev.node][ev.ch][ev.addr]
           entry == FibGet(fib[ev.node], slot.pid)
       IN  /\ slot.pid # 0 /\ entry # NoEntry
           /\ RankOf(entry, ev.frm) < RankOf(entry, ev.node)
           /\ slot.st = "ENTANGLED"
           /\ obs.fsm = <<>> /\ obs.out = <<>>

\* a qubit without a path_id is left ENTANGLED
C28_UnboundReached ==
    /\ AfterEntangled
    /\ LET ev == obs.ev
           slot == mem[ev.node][ev.ch][ev.addr]
       IN  /\ slot.pid = 0
           /\ slot.st = "ENTANGLED" /\ slot.epr.name # 0
           /\ obs.fsm = <<>>

(***************************************************************************)
(* C29: whenever an intermediate node attempts a swap (one of its qubits   *)
(* becomes ELIGIBLE while another memory holds an ELIGIBLE qubit of the    *)
(* same path), it sends exactly two SWAP_UPDATE messages with fwd false:   *)
(* to the previous partner about the previous pair with partner = next     *)
(* partner, to the next partner about the next pair with partner =         *)
(* previous partner, both with the same new_epr (none on failure); both    *)
(* slots are read out and released, each with one QubitReleasedEvent; a    *)
(* parallel-swap record is added only on success and only for a partner   *)
(* of the rank of the node.                                                *)
(***************************************************************************)
\* the eligible qubits <<memory, address>> of path pid in the memories of
\* node n other than c
OtherEligible(n, c, pid) ==
    {s \in Slots : /\ s[1] = n /\ s[2] # c
                   /\ mem[n][s[2]][s[3]].st = "ELIGIBLE"
                   /\ mem[n][s[2]][s[3]].pid = pid
                   /\ mem[n][s[2]][s[3]].epr.name # 0}

Intermediate(entry, n) ==
    /\ RouteIndex(entry.path_vector, n) > 1
    /\ RouteIndex(entry.path_vector, n) < Len(entry.path_vector)

\* the handler of the step makes slot (n, c, a) eligible for a swap
SwapAttempt(n, c, a) ==
    /\ ~fatal /\ queue # <<>>
    /\ obs'.ev = Head(queue)
    /\ obs'.ev.kind \in {"entangled", "pf_signal"}
    /\ obs'.ev.node = n
    /\ \E i \in 1..Len(obs'.fsm) : obs'.fsm[i] = <<n, c, a, "ELIGIBLE">>
    /\ ~(cfg.mode = "SYNC" /\ pfPhase[n] # "INTERNAL")
    /\ mem[n][c][a].pid # 0
    /\ FibGet(fib[n], mem[n][c][a].pid) # NoEntry
    /\ Intermediate(FibGet(fib[n], mem[n][c][a].pid), n)
    /\ OtherEligible(n, c, mem[n][c][a].pid) # {}

\* the pair of the qubit when it becomes eligible: as rewritten by the
\* SWAP_UPDATE of the step, or as it is in the slot
ThisEpr(n, c, a) ==
    IF Head(queue).kind = "pf_signal" THEN Head(queue).msg.new_epr
    ELSE mem[n][c][a].epr

ReadOutAndReleased(n, c, a) ==
    /\ mem'[n][c][a].epr = NoEpr
    /\ mem'[n][c][a].st = "RELEASE"
    /\ mem'[n][c][a].pid = mem[n][c][a].pid
    /\ Cardinality({i \in 1..Len(obs'.fsm) : obs'.fsm[i] = <<n, c, a, "RELEASE">>}) = 1

\* the QubitReleasedEvents of slot (n, c, a) at time t in an event pool
ReleasedAt(q, n, c, a, t) ==
    {i \in EventsOf(q, "released", n) :
        q[i].ch = c /\ q[i].addr = a /\ q[i].t = t}

SwapUpdateOf(m, n, pid, dest, name, partner) ==
    /\ m.cmd = "SWAP_UPDATE" /\ m.fwd = FALSE
    /\ m.swapping_node = n /\ m.path_id = pid
    /\ m.destination = dest /\ m.epr = name /\ m.partner = partner

C29_SwapPost(n, c, a) ==
    LET pid == mem[n][c][a].pid
        entry == FibGet(fib[n], pid)
        this == ThisEpr(n, c, a)
    IN
    /\ ~fatal'
    /\ \E o \in OtherEligible(n, c, pid) :
         LET oc == o[2]
             oa == o[3]
             other == mem[n][oc][oa].epr
             thisPrev == this.dst = n
             prev_epr == IF thisPrev THEN this ELSE other
             next_epr == IF thisPrev THEN other ELSE this
             prev == IF thisPrev THEN <<c, a>> ELSE <<oc, oa>>
             next == IF thisPrev THEN <<oc, oa>> ELSE <<c, a>>
             new_epr == obs'.su[1].msg.new_epr
             added == (DOMAIN par'[n]) \ (DOMAIN par[n])
         IN
         /\ Len(obs'.su) = 2
         /\ obs'.su[1].node = n /\ obs'.su[2].node = n
         /\ SwapUpdateOf(obs'.su[1].msg, n, pid, prev_epr.src,
                         prev_epr.name, next_epr.dst)
         /\ SwapUpdateOf(obs'.su[2].msg, n, pid, next_epr.dst,
                         next_epr.name, prev_epr.src)
         /\ obs'.su[2].msg.new_epr = new_epr
         /\ new_epr # NoEpr =>
               /\ new_epr.name \notin {0, prev_epr.name, next_epr.name}
               /\ new_epr.src = prev_epr.src /\ new_epr.dst = next_epr.dst
         /\ ReadOutAndReleased(n, c, a)
         /\ ReadOutAndReleased(n, oc, oa)
         /\ usage'[n][c] = usage[n][c] - 1
         /\ usage'[n][oc] = usage[n][oc] - 1
         /\ Cardinality(EventsOf(queue', "released", n))
              = Cardinality(EventsOf(Tail(queue), "released", n))
                  + 1 + (IF now' + Eps <= cfg.end THEN 1 ELSE 0)
         /\ Cardinality(ReleasedAt(queue', n, prev[1], prev[2], now'))
              = Cardinality(ReleasedAt(Tail(queue), n, prev[1], prev[2], now')) + 1
         /\ now' + Eps <= cfg.end =>
              Cardinality(ReleasedAt(queue', n, next[1], next[2], now' + Eps))
                = Cardinality(ReleasedAt(Tail(queue), n, next[1], next[2],
                                         now' + Eps)) + 1
         /\ \A k \in (DOMAIN par'[n]) \cap (DOMAIN par[n]) : par'[n][k] = par[n][k]
         /\ DOMAIN par[n] \subseteq DOMAIN par'[n]
         /\ added \subseteq {prev_epr.name, next_epr.name}
         /\ added # {} => new_epr # NoEpr
         /\ prev_epr.name \in added => RankOf(entry, prev_epr.src) = RankOf(entry, n)
         /\ next_epr.name \in added => RankOf(entry, next_epr.dst) = RankOf(entry, n)

\* in any step, the SWAP_UPDATEs a node originates come in pairs, two for
\* each swap it attempts
C29_PairsPost ==
    \A n \in Nodes :
       Cardinality({i \in 1..Len(obs'.su) :
                       obs'.su[i].node = n /\ ~obs'.su[i].msg.fwd})
         = 2 * (obs'.swaps[n] - obs.swaps[n])

C29_SwapAttemptSignalsAndReleases ==
    [][/\ \A s \in Slots : SwapAttempt(s[1], s[2], s[3])
                              => C29_SwapPost(s[1], s[2], s[3])
       /\ ~fatal' => C29_PairsPost]_vars

SwapDone(succeeded) ==
    /\ ~fatal
    /\ obs.ev.kind \in {"entangled", "pf_signal"}
    /\ Len(obs.su) = 2
    /\ ~obs.su[1].msg.fwd /\ ~obs.su[2].msg.fwd
    /\ obs.su[1].msg.swapping_node = obs.ev.node
    /\ (obs.su[1].msg.new_epr # NoEpr) = succeeded
    /\ Cardinality({i \in 1..Len(obs.fsm) : obs.fsm[i][4] = "RELEASE"}) = 2

\* a failed swap: two SWAP_UPDATEs without new_epr, both slots released
C29_Witness == SwapDone(FALSE) /\ par[obs.ev.node] = <<>>

\* a successful swap next to a partner of the same rank, recorded
C29_ParallelReached ==
    /\ SwapDone(TRUE)
    /\ obs.su[1].msg.epr \in DOMAIN par[obs.ev.node]
          \/ obs.su[2].msg.epr \in DOMAIN par[obs.ev.node]

\* a successful swap triggered by a SWAP_UPDATE, nothing recorded
C29_AfterUpdateReached ==
    /\ SwapDone(TRUE)
    /\ obs.ev.kind = "pf_signal"
    /\ par[obs.ev.node] = <<>>

(***************************************************************************)
(* C30: a SWAP_UPDATE m at its destination, whose rank is higher than the  *)
(* rank of the swapping node.  While the node holds the slot of m.epr: if  *)
(* m.new_epr is none or its decoherence time is not later than the current *)
(* time the slot is read out and released with a QubitReleasedEvent;       *)
(* otherwise the slot keeps its address and path_id and holds m.new_epr,   *)
(* and if the rank of m.partner is not lower than the rank of the node the *)
(* slot goes to PURIF and the swap or the consumption follows in the same  *)
(* handler.  When no slot holds m.epr nothing changes.                     *)
(***************************************************************************)
UpdateAtDestination(n) ==
    /\ ~fatal /\ queue # <<>>
    /\ obs'.ev = Head(queue)
    /\ Head(queue).kind = "pf_signal"
    /\ Head(queue).node = n
    /\ Head(queue).msg.cmd = "SWAP_UPDATE"
    /\ Head(queue).msg.destination = n
    /\ FibGet(fib[n], Head(queue).msg.path_id) # NoEntry
    /\ RankOf(FibGet(fib[n], Head(queue).msg.path_id), n)
         > RankOf(FibGet(fib[n], Head(queue).msg.path_id),
                  Head(queue).msg.swapping_node)

\* the forwarder handles SWAP_UPDATEs: always in ASYNC and LSYNC, during
\* the INTERNAL phase in SYNC
UpdatesHandled(n) == ~(cfg.mode = "SYNC" /\ pfPhase[n] # "INTERNAL")

\* the slots of node n that hold the pair named name
Holding(n, name) ==
    {s \in Slots : s[1] = n /\ name # 0 /\ mem[n][s[2]][s[3]].epr.name = name}

C30_ReleasePost(n, c, a) ==
    /\ mem'[n][c][a] = [mem[n][c][a] EXCEPT !.epr = NoEpr, !.st = "RELEASE"]
    /\ usage'[n][c] = usage[n][c] - 1
    /\ obs'.fsm = << <<n, c, a, "RELEASE">> >>
    /\ obs'.su = <<>>
    /\ Cardinality(ReleasedAt(queue', n, c, a, now'))
         = Cardinality(ReleasedAt(Tail(queue), n, c, a, now')) + 1
    /\ Cardinality(EventsOf(queue', "released", n))
         = Cardinality(EventsOf(Tail(queue), "released", n)) + 1
    /\ e2e' = e2e /\ par' = par

C30_ContinuePost(n, c, a, entry, new_epr) ==
    /\ Len(obs'.fsm) >= 2
    /\ obs'.fsm[1] = <<n, c, a, "PURIF">>
    /\ obs'.fsm[2] = <<n, c, a, "ELIGIBLE">>
    /\ IF Intermediate(entry, n)
         THEN IF OtherEligible(n, c, mem[n][c][a].pid) = {}
                THEN /\ mem'[n][c][a] = [mem[n][c][a] EXCEPT !.epr = new_epr,
                                                            !.st = "ELIGIBLE"]
                     /\ obs'.su = <<>>
                ELSE /\ Len(obs'.su) = 2
                     /\ new_epr.name \in {obs'.su[1].msg.epr, obs'.su[2].msg.epr}
                     /\ mem'[n][c][a] = [mem[n][c][a] EXCEPT !.epr = NoEpr,
                                                            !.st = "RELEASE"]
         ELSE /\ mem'[n][c][a] = [mem[n][c][a] EXCEPT !.epr = NoEpr,
                                                     !.st = "RELEASE"]
              /\ e2e'[n] = e2e[n] + 1
              /\ \E r \in obs'.consumed \ obs.consumed :
                    r.node = n /\ r.name = new_epr.name
              /\ Cardinality(ReleasedAt(queue', n, c, a, now'))
                   = Cardinality(ReleasedAt(Tail(queue), n, c, a, now')) + 1
              /\ obs'.su = <<>>

C30_UpdatePost(n, c, a, entry, msg) ==
    /\ mem'[n][c][a].pid = mem[n][c][a].pid
    /\ \A s \in Holding(n, msg.new_epr.name)' : s = <<n, c, a>>
    /\ IF RankOf(entry, msg.partner) >= RankOf(entry, n)
         THEN C30_ContinuePost(n, c, a, entry, msg.new_epr)
         ELSE /\ mem'[n][c][a] = [mem[n][c][a] EXCEPT !.epr = msg.new_epr]
              /\ \A k \in NodeChans(cfg, n) : Changed(mem, mem', n, k) \subseteq {a}
              /\ Changed(mem, mem', n, c) = {a}
              /\ obs'.fsm = <<>> /\ obs'.su = <<>>
              /\ usage' = usage /\ e2e' = e2e /\ par' = par

C30_Post(n) ==
    LET msg == Head(queue).msg
        entry == FibGet(fib[n], msg.path_id)
        held == Holding(n, msg.epr)
    IN
    /\ ~fatal'
    /\ IF held = {}
         THEN /\ mem' = mem /\ usage' = usage /\ par' = par /\ e2e' = e2e
              /\ fib' = fib /\ queue' = Tail(queue)
              /\ obs'.fsm = <<>> /\ obs'.su = <<>> /\ obs'.out = <<>>
         ELSE \E s \in held :
                IF msg.new_epr.name = 0 \/ msg.new_epr.dt <= now'
                  THEN C30_ReleasePost(n, s[2], s[3])
                  ELSE C30_UpdatePost(n, s[2], s[3], entry, msg)

AfterUpdate ==
    /\ ~fatal
    /\ obs.ev.kind = "pf_signal"
    /\ obs.ev.msg.destination = obs.ev.node
    /\ FibGet(fib[obs.ev.node], obs.ev.msg.path_id) # NoEntry
    /\ RankOf(FibGet(fib[obs.ev.node], obs.ev.msg.path_id), obs.ev.node)
         > RankOf(FibGet(fib[obs.ev.node], obs.ev.msg.path_id),
                  obs.ev.msg.swapping_node)

C30_ContinueReached ==
    /\ AfterUpdate
    /\ obs.ev.msg.new_epr.name # 0
    /\ Len(obs.fsm) = 3
    /\ obs.fsm[1][4] = "PURIF" /\ obs.fsm[2][4] = "ELIGIBLE"
    /\ obs.fsm[3][4] = "RELEASE"

\* a slot released because new_epr is none, or has expired
C30_ReleaseReached ==
    /\ AfterUpdate
    /\ obs.ev.msg.new_epr.name = 0
    /\ Len(obs.fsm) = 1 /\ obs.fsm[1][4] = "RELEASE"

C30_ExpiredReached ==
    /\ AfterUpdate
    /\ obs.ev.msg.new_epr.name # 0 /\ obs.ev.msg.new_epr.dt <= now
    /\ Len(obs.fsm) = 1 /\ obs.fsm[1][4] = "RELEASE"

\* the pair of the SWAP_UPDATE is no longer held
C30_GoneReached ==
    /\ AfterUpdate
    /\ UpdatesHandled(obs.ev.node)
    /\ obs.fsm = <<>>
    /\ obs.ev.msg.new_epr.name # 0
    /\ ~\E s \in Slots : s[1] = obs.ev.node
           /\ mem[s[1]][s[2]][s[3]].epr.name
                 \in {obs.ev.msg.epr, obs.ev.msg.new_epr.name}

(***************************************************************************)
(* C31: a SWAP_UPDATE m at its destination, whose rank equals the rank of  *)
(* the swapping node, while the node still holds the slot of m.epr: the    *)
(* node does what a higher-ranked destination does (release on a null or   *)
(* expired new_epr; otherwise rewrite the slot and, if the rank of         *)
(* m.partner is not lower than its own, move the slot to PURIF and go on   *)
(* swapping) and no parallel_swappings record keyed by m.epr remains.      *)
(***************************************************************************)
UpdateFromEqualRank(n) ==
    /\ ~fatal /\ queue # <<>>
    /\ obs'.ev = Head(queue)
    /\ Head(queue).kind = "pf_signal"
    /\ Head(queue).node = n
    /\ Head(queue).msg.cmd = "SWAP_UPDATE"
    /\ Head(queue).msg.destination = n
    /\ UpdatesHandled(n)
    /\ FibGet(fib[n], Head(queue).msg.path_id) # NoEntry
    /\ RankOf(FibGet(fib[n], Head(queue).msg.path_id), n)
         = RankOf(FibGet(fib[n], Head(queue).msg.path_id),
                  Head(queue).msg.swapping_node)

\* the record keyed by name is gone, the other records are as they were
RecordCleared(n, name) ==
    /\ name \notin DOMAIN par'[n]
    /\ \A k \in (DOMAIN par[n]) \ {name} :
          k \in DOMAIN par'[n] /\ par'[n][k] = par[n][k]

C31_ReleasePost(n, c, a) ==
    /\ mem'[n][c][a] = [mem[n][c][a] EXCEPT !.epr = NoEpr, !.st = "RELEASE"]
    /\ usage'[n][c] = usage[n][c] - 1
    /\ obs'.su = <<>>
    /\ Cardinality(ReleasedAt(queue', n, c, a, now'))
         = Cardinality(ReleasedAt(Tail(queue), n, c, a, now')) + 1
    /\ e2e' = e2e

\* the slot is rewritten; with a partner of lower rank it waits
C31_RewritePost(n, c, a, entry, msg) ==
    /\ mem'[n][c][a].pid = mem[n][c][a].pid
    /\ RankOf(entry, msg.partner) < RankOf(entry, n) =>
          /\ mem'[n][c][a] = [mem[n][c][a] EXCEPT !.epr = msg.new_epr]
          /\ obs'.fsm = <<>> /\ obs'.su = <<>>

\* with a partner of the same or a higher rank the slot goes through PURIF
C31_ContinuePost(n, c, a, entry, msg) ==
    RankOf(entry, msg.partner) >= RankOf(entry, n) =>
       C30_ContinuePost(n, c, a, entry, msg.new_epr)

C31_Held(n) ==
    /\ UpdateFromEqualRank(n)
    /\ Holding(n, Head(queue).msg.epr) # {}

C31_Post(n, continues) ==
    LET msg == Head(queue).msg
        entry == FibGet(fib[n], msg.path_id)
    IN
    /\ ~fatal'
    /\ RecordCleared(n, msg.epr)
    /\ \E s \in Holding(n, msg.epr) :
          IF msg.new_epr.name = 0 \/ msg.new_epr.dt <= now'
            THEN C31_ReleasePost(n, s[2], s[3])
            ELSE /\ C31_RewritePost(n, s[2], s[3], entry, msg)
                 /\ continues => C31_ContinuePost(n, s[2], s[3], entry, msg)

\* as stated
C31_EqualRankAsHigherRank ==
    [][\A n \in Nodes : C31_Held(n) => C31_Post(n, TRUE)]_vars

\* what holds: release, rewrite and the removal of the record
C31_EqualRankRewrites ==
    [][\A n \in Nodes : C31_Held(n) => C31_Post(n, FALSE)]_vars

\* a slot rewritten by an equal-ranked neighbour whose new partner is not
\* of lower rank
C31_Reached ==
    /\ ~fatal
    /\ obs.ev.kind = "pf_signal"
    /\ obs.ev.msg.destination = obs.ev.node
    /\ UpdatesHandled(obs.ev.node)
    /\ FibGet(fib[obs.ev.node], obs.ev.msg.path_id) # NoEntry
    /\ LET entry == FibGet(fib[obs.ev.node], obs.ev.msg.path_id) IN
       /\ RankOf(entry, obs.ev.node) = RankOf(entry, obs.ev.msg.swapping_node)
       /\ RankOf(entry, obs.ev.msg.partner) >= RankOf(entry, obs.ev.node)
    /\ obs.ev.msg.new_epr.name # 0
    /\ Holding(obs.ev.node, obs.ev.msg.new_epr.name) # {}
    /\ obs.fsm = <<>>

(***************************************************************************)
(* C32: the merge of two parallel swaps.  A SWAP_UPDATE m reaches its      *)
(* destination, of the rank of the swapping node, which no longer holds    *)
(* the slot of m.epr and has a record (shared, other, my_new) for m.epr;   *)
(* m.new_epr is neither null nor expired.  The node sends exactly one      *)
(* delayed SWAP_UPDATE to the far endpoint of other, with epr = my_new and *)
(* new_epr the merged pair, whose endpoints are the outer endpoint of      *)
(* m.new_epr and the far endpoint of other; the record of m.epr is erased, *)
(* and a new record is registered exactly when the new partner has the     *)
(* rank of the node and the merge is not null.                             *)
(***************************************************************************)
\* the SWAP_UPDATE of the step finds the record of a parallel swap
ParallelUpdate(n) ==
    /\ UpdateFromEqualRank(n)
    /\ Holding(n, Head(queue).msg.epr) = {}
    /\ Head(queue).msg.epr \in DOMAIN par[n]

Unexpired(new_epr, t) == new_epr.name # 0 /\ new_epr.dt > t

\* the endpoint of a pair that is not node n
FarEnd(epr, n) == IF epr.dst = n THEN epr.src ELSE epr.dst

\* the pool holds message m for node nh at time t once more than before
DeliveredAt(q, nh, m, t) ==
    {i \in EventsOf(q, "pf_signal", nh) : q[i].msg = m /\ q[i].t = t}

\* exactly one SWAP_UPDATE is sent, towards dest, with twice the delay of
\* the channel
OneDelayedUpdate(n, entry, dest) ==
    /\ Len(obs'.su) = 1
    /\ obs'.su[1].node = n
    /\ obs'.su[1].msg.cmd = "SWAP_UPDATE"
    /\ obs'.su[1].msg.destination = dest
    /\ LET own_idx == RouteIndex(entry.path_vector, n)
           nh == IF RouteIndex(entry.path_vector, dest) > own_idx
                   THEN entry.path_vector[own_idx + 1]
                   ELSE entry.path_vector[own_idx - 1]
           t == now' + 2 * cfg.dc[ChanTo(n, nh)]
       IN  /\ obs'.su[1].to = nh
           /\ t <= cfg.end =>
                Cardinality(DeliveredAt(queue', nh, obs'.su[1].msg, t))
                  = Cardinality(DeliveredAt(Tail(queue), nh, obs'.su[1].msg, t)) + 1
           /\ Cardinality(EventsOf(queue', "pf_signal", nh))
                = Cardinality(EventsOf(Tail(queue), "pf_signal", nh))
                    + (IF t <= cfg.end THEN 1 ELSE 0)

C32_Post(n) ==
    LET msg == Head(queue).msg
        entry == FibGet(fib[n], msg.path_id)
        rec == par[n][msg.epr]
        far == FarEnd(rec.other, n)
        outer == FarEnd(msg.new_epr, n)
        merged == obs'.su[1].msg.new_epr
        added == (DOMAIN par'[n]) \ (DOMAIN par[n])
    IN
    /\ ~fatal'
    /\ OneDelayedUpdate(n, entry, far)
    /\ obs'.su[1].msg.epr = rec.my_new.name
    /\ obs'.su[1].msg.path_id = msg.path_id
    /\ merged.name # 0
    /\ {merged.src, merged.dst} = {outer, far}
    /\ outer # far /\ outer # n /\ far # n
    /\ msg.epr \notin DOMAIN par'[n]
    /\ \A k \in (DOMAIN par[n]) \ {msg.epr} :
          k \in DOMAIN par'[n] /\ par'[n][k] = par[n][k]
    /\ (added # {}) = (RankOf(entry, outer) = RankOf(entry, n))
    /\ \A k \in added : par'[n][k].my_new = merged
    /\ mem' = mem /\ usage' = usage /\ e2e' = e2e /\ fib' = fib
    /\ obs'.fsm = <<>>

C32_ParallelSwapMerge ==
    [][\A n \in Nodes :
          (ParallelUpdate(n) /\ Unexpired(Head(queue).msg.new_epr, now'))
             => C32_Post(n)]_vars

AfterParallelUpdate ==
    /\ ~fatal
    /\ obs.ev.kind = "pf_signal"
    /\ obs.ev.msg.destination = obs.ev.node
    /\ UpdatesHandled(obs.ev.node)
    /\ FibGet(fib[obs.ev.node], obs.ev.msg.path_id) # NoEntry
    /\ RankOf(FibGet(fib[obs.ev.node], obs.ev.msg.path_id), obs.ev.node)
         = RankOf(FibGet(fib[obs.ev.node], obs.ev.msg.path_id),
                  obs.ev.msg.swapping_node)
    /\ Len(obs.su) = 1
    /\ obs.su[1].node = obs.ev.node
    /\ obs.su[1].msg.fwd
    /\ obs.su[1].msg.destination # obs.ev.msg.destination

\* a merge sent on to an end node: no new record
C32_Witness ==
    /\ AfterParallelUpdate
    /\ Unexpired(obs.ev.msg.new_epr, now)
    /\ obs.su[1].msg.new_epr.name # 0
    /\ obs.ev.msg.epr \notin DOMAIN par[obs.ev.node]

\* a merge next to a third node of the same rank: a new record
C32_RecordReached ==
    /\ C32_Witness
    /\ obs.ev.msg.new_epr.name \in DOMAIN par[obs.ev.node]
    /\ par[obs.ev.node][obs.ev.msg.new_epr.name].my_new = obs.su[1].msg.new_epr

(***************************************************************************)
(* C33: a parallel swap whose neighbour failed.  A SWAP_UPDATE m reaches   *)
(* its destination, of the rank of the swapping node, which no longer      *)
(* holds the slot of m.epr and has a record (shared, other, my_new) for    *)
(* m.epr; m.new_epr is null or expired.  The node sends exactly one        *)
(* delayed SWAP_UPDATE with new_epr null and epr = my_new to the far side  *)
(* of other and erases the record; the outer endpoint, when it handles     *)
(* that message while holding my_new, releases the slot.                   *)
(***************************************************************************)
C33_Post(n) ==
    LET msg == Head(queue).msg
        entry == FibGet(fib[n], msg.path_id)
        rec == par[n][msg.epr]
        far == FarEnd(rec.other, n)
    IN
    /\ ~fatal'
    /\ OneDelayedUpdate(n, entry, far)
    /\ obs'.su[1].msg.epr = rec.my_new.name
    /\ obs'.su[1].msg.new_epr = NoEpr
    /\ obs'.su[1].msg.path_id = msg.path_id
    /\ far # n
    /\ par'[n] = Restrict(par[n], (DOMAIN par[n]) \ {msg.epr})
    /\ mem' = mem /\ usage' = usage /\ e2e' = e2e /\ fib' = fib
    /\ obs'.fsm = <<>>

\* the step handles, at its destination n, a null continuation sent by a
\* node that had swapped in parallel, and n holds the pair it names
ContinuationArrives(n) ==
    /\ ~fatal /\ queue # <<>>
    /\ obs'.ev = Head(queue)
    /\ Head(queue).kind = "pf_signal"
    /\ Head(queue).node = n
    /\ Head(queue).msg.destination = n
    /\ Head(queue).msg.fwd
    /\ Head(queue).msg.new_epr = NoEpr
    /\ <<n, Head(queue).msg.epr>> \in obs.relayed
    /\ UpdatesHandled(n)
    /\ Holding(n, Head(queue).msg.epr) # {}

C33_ReleasePost(n) ==
    /\ ~fatal'
    /\ \E s \in Holding(n, Head(queue).msg.epr) :
          /\ mem'[n][s[2]][s[3]].epr = NoEpr
          /\ mem'[n][s[2]][s[3]].st = "RELEASE"
          /\ Cardinality(ReleasedAt(queue', n, s[2], s[3], now'))
               = Cardinality(ReleasedAt(Tail(queue), n, s[2], s[3], now')) + 1

C33_FailedNeighbourContinuation ==
    [][\A n \in Nodes :
          /\ (ParallelUpdate(n) /\ ~Unexpired(Head(queue).msg.new_epr, now'))
                => C33_Post(n)
          /\ ContinuationArrives(n) => C33_ReleasePost(n)]_vars

\* the continuation has been sent
C33_Witness ==
    /\ AfterParallelUpdate
    /\ ~Unexpired(obs.ev.msg.new_epr, now)
    /\ obs.su[1].msg.new_epr = NoEpr
    /\ obs.ev.msg.epr \notin DOMAIN par[obs.ev.node]
    /\ <<obs.su[1].msg.destination, obs.su[1].msg.epr>> \in obs.relayed

\* the outer endpoint has released its slot on the continuation
C33_ReleasedReached ==
    /\ ~fatal
    /\ obs.ev.kind = "pf_signal"
    /\ obs.ev.msg.fwd /\ obs.ev.msg.new_epr = NoEpr
    /\ obs.ev.msg.destination = obs.ev.node
    /\ <<obs.ev.node, obs.ev.msg.epr>> \in obs.relayed
    /\ Len(obs.fsm) = 1 /\ obs.fsm[1][4] = "RELEASE"
    /\ obs.fsm[1][1] = obs.ev.node

(***************************************************************************)
(* C34: a node that receives a SWAP_UPDATE of which it is not the          *)
(* destination forwards it exactly when its rank is not higher than the    *)
(* rank of the swapping node: it sends one copy, with fwd true and every   *)
(* other field unchanged, to its neighbour on the route on the side of the *)
(* destination; the message received is not changed and the memories, the  *)
(* FIB and parallel_swappings of the node are as before.  With a higher    *)
(* rank nothing is sent and nothing changes.                               *)
(***************************************************************************)
UpdateInTransit(n) ==
    /\ ~fatal /\ queue # <<>>
    /\ obs'.ev = Head(queue)
    /\ Head(queue).kind = "pf_signal"
    /\ Head(queue).node = n
    /\ Head(queue).msg.cmd = "SWAP_UPDATE"
    /\ Head(queue).msg.destination # n
    /\ FibGet(fib[n], Head(queue).msg.path_id) # NoEntry
    /\ RouteIndex(FibGet(fib[n], Head(queue).msg.path_id).path_vector, n) # 0
    /\ RouteIndex(FibGet(fib[n], Head(queue).msg.path_id).path_vector,
                  Head(queue).msg.destination) # 0

NodeUnchanged(n) ==
    /\ mem'[n] = mem[n] /\ usage'[n] = usage[n]
    /\ fib'[n] = fib[n] /\ par'[n] = par[n] /\ e2e'[n] = e2e[n]
    /\ obs'.fsm = <<>>

C34_Post(n) ==
    LET msg == Head(queue).msg
        entry == FibGet(fib[n], msg.path_id)
        route == entry.path_vector
        own_idx == RouteIndex(route, n)
        nh == IF RouteIndex(route, msg.destination) > own_idx
                THEN route[own_idx + 1] ELSE route[own_idx - 1]
        t == now' + cfg.dc[ChanTo(n, nh)]
    IN
    /\ ~fatal'
    /\ NodeUnchanged(n)
    /\ obs'.ev.msg = msg
    /\ IF RankOf(entry, n) <= RankOf(entry, msg.swapping_node)
         THEN /\ Len(obs'.su) = 1
              /\ obs'.su[1].node = n /\ obs'.su[1].to = nh
              /\ obs'.su[1].msg = [msg EXCEPT !.fwd = TRUE]
              /\ t <= cfg.end =>
                   Cardinality(DeliveredAt(queue', nh, obs'.su[1].msg, t))
                     = Cardinality(DeliveredAt(Tail(queue), nh, obs'.su[1].msg, t)) + 1
              /\ Cardinality(EventsOf(queue', "pf_signal", nh))
                   = Cardinality(EventsOf(Tail(queue), "pf_signal", nh))
                       + (IF t <= cfg.end THEN 1 ELSE 0)
         ELSE /\ obs'.su = <<>>
              /\ queue' = Tail(queue)
              /\ mem' = mem /\ par' = par /\ fib' = fib

\* as stated, for every SWAP_UPDATE in transit
C34_TransitForwarded ==
    [][\A n \in Nodes : UpdateInTransit(n) => C34_Post(n)]_vars

\* for the SWAP_UPDATEs the forwarder handles
C34_HandledTransitForwarded ==
    [][\A n \in Nodes :
          (UpdateInTransit(n) /\ UpdatesHandled(n)) => C34_Post(n)]_vars

\* a SWAP_UPDATE sent on unchanged but for fwd, which was false
C34_Witness ==
    /\ ~fatal
    /\ obs.ev.kind = "pf_signal"
    /\ obs.ev.msg.destination # obs.ev.node
    /\ ~obs.ev.msg.fwd
    /\ Len(obs.su) = 1
    /\ obs.su[1].node = obs.ev.node
    /\ obs.su[1].msg = [obs.ev.msg EXCEPT !.fwd = TRUE]
    /\ obs.su[1].to \notin {obs.ev.node, obs.ev.frm}

(***************************************************************************)
(* C35: in SYNC mode every QubitEntangledEvent of a heralded pair is       *)
(* handled by the forwarder exactly once, at the next INTERNAL signal and  *)
(* in arrival order: the event is put in waiting_qubits when it is         *)
(* delivered, none is handled before the INTERNAL signal, the queue is     *)
(* empty once that signal is handled, and no event is lost.                *)
(***************************************************************************)
\* the step delivers a QubitEntangledEvent to a forwarder in SYNC mode; the
\* link layer heralds pairs only while its phase is EXTERNAL
EntangledInSync ==
    cfg.mode = "SYNC" /\ obs'.ev.kind = "entangled"

\* the waiting_qubits entry of the event the step takes
ThisEntangled == <<Head(queue).frm, Head(queue).ch, Head(queue).addr>>

\* the event is kept for the INTERNAL signal and not handled yet
C35_Queued ==
    /\ pfWaiting'[Head(queue).node]
         = Append(pfWaiting[Head(queue).node], ThisEntangled)
    /\ obs'.fsm = <<>> /\ obs'.su = <<>>
    /\ mem' = mem /\ par' = par

\* the step delivers the INTERNAL signal to the forwarders
InternalSignal ==
    /\ cfg.mode = "SYNC" /\ obs'.ev.kind = "sync"
    /\ obs'.ev.msg.cmd = "INTERNAL"

\* every waiting event is handled at the signal and the queues are emptied
C35_Drained ==
    ~fatal' => \A n \in PathNodes : pfWaiting'[n] = <<>>

C35_EntangledHandledAtInternal ==
    [][/\ EntangledInSync => C35_Queued
       /\ InternalSignal => C35_Drained]_vars

\* the part the code keeps: an event delivered in the EXTERNAL phase is
\* queued, one delivered in another phase changes nothing
C35_QueuedWhileExternal ==
    [][/\ (EntangledInSync /\ pfPhase[Head(queue).node] = "EXTERNAL")
            => C35_Queued
       /\ (EntangledInSync /\ pfPhase[Head(queue).node] # "EXTERNAL")
            => (pfWaiting' = pfWaiting /\ mem' = mem /\ par' = par
                /\ obs'.fsm = <<>> /\ obs'.su = <<>>)
       /\ InternalSignal => C35_Drained]_vars

\* a QubitEntangledEvent delivered after the INTERNAL signal was dropped
C35_DroppedReached ==
    /\ cfg.mode = "SYNC" /\ obs.ev.kind = "entangled"
    /\ pfPhase[obs.ev.node] = "INTERNAL"
    /\ mem[obs.ev.node][obs.ev.ch][obs.ev.addr].st = "ENTANGLED"
    /\ pfWaiting[obs.ev.node] = <<>>

\* waiting events were handled at an INTERNAL signal
C35_HandledReached ==
    /\ cfg.mode = "SYNC" /\ obs.ev.kind = "sync"
    /\ obs.ev.msg.cmd = "INTERNAL" /\ obs.fsm # <<>> /\ ~fatal

(***************************************************************************)
(* C36: for every heralded success the QubitEntangledEvent that the herald *)
(* side schedules with the notify delay is dispatched only after the       *)
(* epr_succeeded ack of the pair has been delivered to the initiator: the  *)
(* ack precedes that event in the event pool, at the same time; and the    *)
(* QubitEntangledEvent the initiator schedules on the ack carries the same *)
(* time as the one of the herald side.                                     *)
(***************************************************************************)
\* the epr_succeeded acks in an event pool
SucceededAcks(q) ==
    {i \in DOMAIN q : q[i].kind = "ll_signal" /\ q[i].msg.cmd = "epr_succeeded"}

\* the QubitEntangledEvents of the herald side h for a pair of initiator m,
\* at time t
HeraldNotices(q, h, m, t) ==
    {j \in DOMAIN q : /\ q[j].kind = "entangled" /\ q[j].node = h
                      /\ q[j].frm = m /\ q[j].t = t}

\* every ack in the pool is ahead of the event of the herald side: behind
\* an ack wait as many such events as there are acks from it on
AckAheadOfNotice(q) ==
    \A i \in SucceededAcks(q) :
        Cardinality({j \in HeraldNotices(q, q[i].frm, q[i].node, q[i].t) :
                        j > i})
          >= Cardinality({k \in SucceededAcks(q) :
                            /\ k >= i /\ q[k].frm = q[i].frm
                            /\ q[k].node = q[i].node /\ q[k].t = q[i].t})

\* the step delivers an epr_succeeded ack on which the initiator notifies
AckNotified ==
    /\ obs'.ev.kind = "ll_signal" /\ obs'.ev.msg.cmd = "epr_succeeded"
    /\ Calls(obs'.out, "notify") # <<>>

\* the initiator's event has the time of the herald side's, which is still
\* in the pool and ahead of it
C36_SameTime ==
    LET ev == obs'.ev
        notes == Calls(obs'.out, "notify")
    IN
    /\ Len(notes) = 1
    /\ notes[1].node = ev.node /\ notes[1].t = now' /\ ev.t = now'
    /\ mem'[ev.node][notes[1].ch][notes[1].addr].epr.name = ev.msg.epr
    /\ \E j \in HeraldNotices(queue', ev.frm, ev.node, now') :
       \E k \in HeraldNotices(queue', ev.node, ev.frm, now') :
           /\ j < k
           /\ queue'[k].ch = notes[1].ch /\ queue'[k].addr = notes[1].addr

C36_AckBeforeEntangledEvent ==
    [][/\ AckAheadOfNotice(queue)
       /\ AckNotified => C36_SameTime]_vars

\* an ack has been delivered and both QubitEntangledEvents of the pair wait
\* in the pool with the time of the ack
C36_Witness ==
    /\ ~fatal
    /\ obs.ev.kind = "ll_signal" /\ obs.ev.msg.cmd = "epr_succeeded"
    /\ Len(Calls(obs.out, "notify")) = 1
    /\ HeraldNotices(queue, obs.ev.frm, obs.ev.node, now) # {}
    /\ HeraldNotices(queue, obs.ev.node, obs.ev.frm, now) # {}
    /\ obs.ev.t = now /\ now > 0

\* an ack waits in the pool ahead of the event of the herald side
C36_PendingReached ==
    /\ SucceededAcks(queue) # {}
    /\ AckAheadOfNotice(queue)

(***************************************************************************)
(* C37: after any sequence of elementary generations, swaps, SWAP_UPDATE   *)
(* rewrites and merges of parallel swaps, every pair stored in a slot of a *)
(* node has that node as its src or its dst, with src upstream of dst on   *)
(* the path; a node that swaps holds one pair that ends at it and one that *)
(* starts at it, and the swap does not raise.                              *)
(***************************************************************************)
\* x comes before y on the path of the scenario
Upstream(x, y) ==
    /\ RouteIndex(Route(cfg), x) # 0 /\ RouteIndex(Route(cfg), y) # 0
    /\ RouteIndex(Route(cfg), x) < RouteIndex(Route(cfg), y)

\* the pair ends at the node that stores it and runs down the path
EndsAt(epr, n) ==
    /\ epr.src = n \/ epr.dst = n
    /\ Upstream(epr.src, epr.dst)

C37_StoredPairs(m) ==
    \A s \in Slots :
        m[s[1]][s[2]][s[3]].epr.name # 0
          => EndsAt(m[s[1]][s[2]][s[3]].epr, s[1])

\* the step is a swap attempt of node n: it sends the two SWAP_UPDATEs of
\* eligible
SwapStep(n) ==
    /\ obs'.ev.kind \in {"entangled", "pf_signal"}
    /\ obs'.ev.node = n
    /\ Len(obs'.su) = 2
    /\ obs'.su[1].msg.swapping_node = n /\ ~obs'.su[1].msg.fwd
    /\ obs'.su[2].msg.swapping_node = n /\ ~obs'.su[2].msg.fwd

\* one pair ends at n, the other starts at n; the partners are told
C37_SwapPost(n) ==
    /\ ~fatal'
    /\ Upstream(obs'.su[1].msg.destination, n)
    /\ Upstream(n, obs'.su[2].msg.destination)
    /\ obs'.su[1].msg.partner = obs'.su[2].msg.destination
    /\ obs'.su[2].msg.partner = obs'.su[1].msg.destination
    /\ obs'.su[1].msg.new_epr = obs'.su[2].msg.new_epr
    /\ obs'.su[1].msg.new_epr.name # 0 =>
         /\ obs'.su[1].msg.new_epr.src = obs'.su[1].msg.destination
         /\ obs'.su[1].msg.new_epr.dst = obs'.su[2].msg.destination

C37_PairsEndAtHolder ==
    [][/\ C37_StoredPairs(mem')
       /\ \A n \in PathNodes : SwapStep(n) => C37_SwapPost(n)]_vars

\* a destination stores a pair that a merge of parallel swaps produced
C37_Witness ==
    /\ ~fatal
    /\ obs.ev.kind = "pf_signal" /\ obs.ev.msg.fwd
    /\ obs.ev.msg.new_epr.name # 0
    /\ obs.ev.msg.destination = obs.ev.node
    /\ \E s \in Slots :
         /\ s[1] = obs.ev.node
         /\ mem[s[1]][s[2]][s[3]].epr = obs.ev.msg.new_epr
         /\ EndsAt(obs.ev.msg.new_epr, s[1])
         /\ ~Adjacent(obs.ev.msg.new_epr.src, obs.ev.msg.new_epr.dst)

\* a node swaps a pair that a SWAP_UPDATE has just written
C37_SwapOfRewrittenReached ==
    /\ SwapDone(TRUE) /\ obs.ev.kind = "pf_signal"
    /\ ~Adjacent(obs.su[1].msg.destination, obs.ev.node)
         \/ ~Adjacent(obs.su[2].msg.destination, obs.ev.node)

(***************************************************************************)
(* C38: a continuation SWAP_UPDATE (merged pair or null) that a node which *)
(* swapped in parallel relays to an outer destination is delivered to that *)
(* destination strictly after the SWAP_UPDATE that carried the pair my_new *)
(* the continuation refers to, so that the slot of the destination, if it  *)
(* is still held, has the name my_new by then.                             *)
(***************************************************************************)
\* the step delivers to node n a continuation relayed after a parallel swap
ContinuationDelivered(n) ==
    /\ ~fatal /\ queue # <<>>
    /\ obs'.ev = Head(queue)
    /\ Head(queue).kind = "pf_signal" /\ Head(queue).node = n
    /\ Head(queue).msg.destination = n
    /\ Head(queue).msg.fwd
    /\ <<n, Head(queue).msg.epr>> \in obs.relayed \cup obs.contd

\* the SWAP_UPDATEs still on their way to node n that carry the pair name
Underway(q, n, name) ==
    {i \in DOMAIN q : /\ q[i].kind = "pf_signal"
                      /\ q[i].msg.destination = n
                      /\ q[i].msg.new_epr.name = name}

\* the pair my_new reached n at an earlier time and none is still to come
C38_Post(n) ==
    LET my_new == Head(queue).msg.epr IN
    /\ \E t \in 0..(Head(queue).t - 1) : <<n, my_new, t>> \in obs.told
    /\ Underway(queue, n, my_new) = {}

C38_ContinuationAfterOriginal ==
    [][\A n \in PathNodes : ContinuationDelivered(n) => C38_Post(n)]_vars

\* a continuation with a merged pair rewrites the slot that the original
\* SWAP_UPDATE had rewritten with my_new
C38_Witness ==
    /\ ~fatal
    /\ obs.ev.kind = "pf_signal" /\ obs.ev.msg.fwd
    /\ obs.ev.msg.destination = obs.ev.node
    /\ <<obs.ev.node, obs.ev.msg.epr>> \in obs.contd
    /\ \E t \in 0..(now - 1) : <<obs.ev.node, obs.ev.msg.epr, t>> \in obs.told
    /\ obs.ev.msg.new_epr.name # 0
    /\ \E s \in Slots :
         s[1] = obs.ev.node /\ mem[s[1]][s[2]][s[3]].epr = obs.ev.msg.new_epr

\* a null continuation releases the slot that carried my_new
C38_NullReached ==
    /\ ~fatal
    /\ obs.ev.kind = "pf_signal" /\ obs.ev.msg.fwd
    /\ obs.ev.msg.destination = obs.ev.node
    /\ <<obs.ev.node, obs.ev.msg.epr>> \in obs.relayed
    /\ obs.ev.msg.new_epr.name = 0
    /\ \E i \in 1..Len(obs.fsm) : obs.fsm[i][4] = "RELEASE"

(***************************************************************************)
(* C39: every parallel_swappings record a node registers is eventually     *)
(* erased by a later SWAP_UPDATE from the neighbour of equal rank, when    *)
(* all sent messages are delivered; the table is empty once the path is    *)
(* quiescent.  A record can only be erased by a SWAP_UPDATE that names its *)
(* key, and such a message can only come from a node that holds the pair   *)
(* of that name: a record whose pair is held nowhere and named by no       *)
(* message under way stays for ever.                                       *)
(***************************************************************************)
\* the keys of the parallel_swappings of node n
Recorded(n) == DOMAIN par[n]

\* a SWAP_UPDATE for node n that names the pair is under way
NamedUnderway(n, name) ==
    \E i \in DOMAIN queue : /\ queue[i].kind = "pf_signal"
                            /\ queue[i].msg.destination = n
                            /\ queue[i].msg.epr = name

\* some node still holds the pair of that name
HeldSomewhere(name) ==
    \E s \in Slots : mem[s[1]][s[2]][s[3]].epr.name = name

\* a SWAP_UPDATE that named the pair fell after the end of the run
WasCut(n, name) == <<n, name>> \in obs.cut

\* every record can still be erased
C39_RecordsErasable ==
    \A n \in PathNodes : \A name \in Recorded(n) :
        fatal \/ NamedUnderway(n, name) \/ HeldSomewhere(name) \/ WasCut(n, name)

\* the table is empty once the path is quiescent
C39_EmptyWhenQuiescent ==
    (queue = <<>> /\ ~fatal /\ obs.cut = {})
       => \A n \in PathNodes : par[n] = <<>>

C39_RecordsErased == C39_RecordsErasable /\ C39_EmptyWhenQuiescent

\* a record erased by the SWAP_UPDATE of the neighbour of equal rank
C39_ErasedReached ==
    /\ ~fatal /\ obs.ev.kind = "pf_signal"
    /\ obs.ev.msg.destination = obs.ev.node
    /\ Len(obs.su) = 1 /\ obs.su[1].msg.fwd
    /\ obs.ev.msg.epr \notin Recorded(obs.ev.node)

(***************************************************************************)
(* C40: a path install that raises leaves the node unchanged: no slot      *)
(* stays reserved for the path in either adjacent memory, the FIB has no   *)
(* new or replaced entry, and no link activation is scheduled.             *)
(***************************************************************************)
\* the step handles an install message and raises
InstallRaises ==
    /\ ~fatal /\ queue # <<>>
    /\ obs'.ev = Head(queue)
    /\ Head(queue).kind = "control"
    /\ fatal'

\* the slots of node n reserved for path pid in the memories m
ReservedAt(m, n, pid) ==
    {s \in Slots : s[1] = n /\ m[n][s[2]][s[3]].pid = pid}

C40_Unchanged ==
    LET n == Head(queue).node
        pid == Head(queue).path_id
    IN
    /\ ReservedAt(mem', n, pid) = ReservedAt(mem, n, pid)
    /\ mem'[n] = mem[n] /\ usage'[n] = usage[n]
    /\ fib'[n] = fib[n]
    /\ Cardinality(EventsOf(queue', "manage", n))
         = Cardinality(EventsOf(Tail(queue), "manage", n))

C40_FailedInstallChangesNothing ==
    [][InstallRaises => C40_Unchanged]_vars

\* an install raised on the side of the next neighbour after it had
\* reserved a slot on the side of the previous one
C40_HalfReservedReached ==
    /\ fatal /\ obs.ev.kind = "control"
    /\ FibGet(fib[obs.ev.node], obs.ev.path_id) = NoEntry
    /\ ReservedAt(mem, obs.ev.node, obs.ev.path_id) # {}

====
